---- MODULE Spec2Model ----
(***************************************************************************)
(* Verification model of reuler-ai's AI service: the SQLite cache layer,   *)
(* the retrieval rerank step, the recursive chunker and the three-agent    *)
(* question pipeline (both the src/ai-service/src tree and the top-level   *)
(* src/ai-service/agents tree).                                            *)
(*                                                                         *)
(* Conventions.  A Python str is a sequence of one-character strings       *)
(* (<<"q", ":", "c">> is "q:c").  Optional[T] is a set with at most one   *)
(* element: None is {} and a present value x is {x}.                       *)
(***************************************************************************)
EXTENDS Integers, Sequences, FiniteSets, TLC

VARIABLES
    \* ---- CacheService (src/ai-service/src/services/cache_service.py)
    query_cache,          \* table query_cache: cache_key -> row
    embedding_cache,      \* table embedding_cache: text_hash -> row
    concept_graph_cache,  \* table concept_graph_cache: course_id -> row
    now,                  \* datetime.utcnow(), in units of 8 hours
    last,                 \* the last completed call and what it returned
    puts,                 \* history: cache_key -> arguments of the last cache_response on it
    stored,               \* history: every <<query, course_id, response>> ever passed to cache_response
    ops,                  \* number of calls made so far
    \* ---- RetrievalAgent._rerank_chunks (src/ai-service/src/agents/retrieval_agent.py)
    rr_pc,                \* "start" before the call, "done" after it
    rr_chunks,            \* the deduplicated candidate list passed in
    rr_llm,               \* what the completion call does: raises, or returns a text
    rr_out,               \* the list returned
    rr_called,            \* whether _call_llm was awaited
    \* ---- DocumentProcessor (src/ai-service/src/services/document_processor.py)
    sp_pc,                \* "start" before _recursive_split(sp_text), "done" after it
    sp_text,              \* the page text
    chunk_size,           \* self.chunk_size
    chunk_overlap,        \* self.chunk_overlap
    min_chunk_size,       \* self.min_chunk_size
    sp_chunks,            \* the chunks returned
    \* ---- AgentOrchestrator.process_question (src/ai-service/src/agents/base.py and
    \*      src/ai-service/agents/orchestrator.py)
    impl,                 \* which tree serves the request: "src" or "agents"
    pc,                   \* "start", "retrieved", "composed", "done" or "error"
    env,                  \* what each external capability does for this request
    ctx,                  \* the AgentContext
    called,               \* the external capabilities called so far
    disk_cache,           \* EmbeddingService.cache: the texts with a stored embedding
    error,                \* the exception process_question raised, if any
    returned,             \* the dict process_question returned, if any
    \* ---- ask_question (src/ai-service/src/routes/chat.py)
    ask_pc,               \* "start", "lookup_done", "processed" or "done"
    ask_env,              \* the request, and what the database and the pipeline do
    ask_result,           \* the local `result` of process_question, if any
    ask_response,         \* the HTTP status and body of the reply, if any
    ask_cache_errors,     \* the cache calls of this request that raised
    chat_history_db,      \* the messages stored for the session
    \* ---- VerificationAgent._create_excerpt (src/ai-service/agents/verification_agent.py)
    ex_pc,                \* "start" before the call, "done" after it
    ex_text,              \* the source text
    ex_max_length,        \* the max_length argument (150 by default)
    ex_out,               \* the excerpt returned
    \* ---- RetrievalAgent._deduplicate_chunks (src/ai-service/src/agents/retrieval_agent.py)
    dd_pc,                \* "start", "once" after one call, "twice" after a second
    dd_chunks,            \* the concatenated results of the queries
    dd_unique,            \* _deduplicate_chunks(dd_chunks)
    dd_again,             \* _deduplicate_chunks(dd_unique)
    \* ---- concurrent calls of process_question (both trees)
    st_env,               \* per request: its tree, the stage that raises, the options
    st_pc,                \* per request: "start", the stage it is suspended in, "done", "error"
    st_ctx,               \* per AgentContext object: the outputs written so far
    st_read,              \* per request: what each stage read from the context when it began
    st_log,               \* per request: the stage starts and finishes, in order
    \* ---- VectorStore of the top-level tree: calls for one new course
    vs_env,               \* per call: the method called, whether the embedding raises
    vs_pc,                \* per call: "start", "embedding" (suspended), "done"
    collections,          \* VectorStore.collections['course_<id>'], None before the first access
    vs_server,            \* chunk count of each collection the server holds under that name
    vs_handle,            \* per call: the collection it worked on
    vs_result,            \* per call: "none", "ok", "embedding_error", "already_exists"
    \* ---- CacheService under concurrent calls on one key of each table
    cx_env,               \* per call: the method called and its ttl argument
    cx_pc,                \* per call: "start", the statement it awaits, "done"
    cx_at,                \* per call: datetime.utcnow() when it was called
    cx_cursor,            \* per call: the row its SELECT produced
    cx_result,            \* per call: what it returned
    cx_tables,            \* the rows of the three tables
    cx_queue,             \* statements handed to the connection, oldest first
    cx_ready,             \* calls whose awaited statement has finished, oldest first
    cx_completed,         \* calls in the order they returned
    cx_now,               \* the clock
    \* ---- curriculum alignment through the top-level retrieval and verification
    al_pc,                \* "start", "retrieved", "verified"
    al_results,           \* what VectorStore.search returned, nearest first
    al_include_sources,   \* the include_sources option
    al_ctx,               \* retrieved_chunks, sources, curriculum_alignment
    \* ---- DocumentProcessor._create_chunks of the top-level tree, one page
    wc_pc,                \* "start" before _create_chunks, "done" after it
    wc_sentences,         \* the sentences of the page, each as its number of words
    wc_chunk_size,        \* self.chunk_size, in words
    wc_chunks,            \* the chunks, each as the positions of its sentences
    \* ---- the overflow branch of _recursive_split that starts a new buffer
    sd_pc,                \* "overflow" before the branch, "seeded" after it
    sd_buffer,            \* current_chunk when the piece does not fit
    sd_piece,             \* the piece that does not fit
    sd_overlap,           \* self.chunk_overlap
    sd_seed,              \* overlap
    sd_next,              \* current_chunk after the branch
    \* ---- ask_question requests running beside delete_document (routes)
    ev_env,               \* per request: its question
    ev_pc,                \* per request: "start", "lookup_done", "processed", "done"
    ev_result,            \* per request: the response its pipeline computed
    ev_got,               \* per request: the cached response it was served
    ev_doc,               \* whether the chunks of the document are in the vector store
    ev_del,               \* delete_document: "start", "vectors_deleted", "done"
    \* ---- process_document_background tasks of one course (routes/documents.py)
    mg_env,               \* per task: the concepts extracted from its document
    mg_pc,                \* per task: "start", "read" (graph read, not yet written), "done"
    mg_existing           \* per task: existing_graph as it read it

cacheVars == <<query_cache, embedding_cache, concept_graph_cache, now, last, puts, stored, ops>>
rerankVars == <<rr_pc, rr_chunks, rr_llm, rr_out, rr_called>>
splitVars == <<sp_pc, sp_text, chunk_size, chunk_overlap, min_chunk_size, sp_chunks>>

pipeVars == <<impl, pc, env, ctx, called, disk_cache, error, returned>>
askVars == <<ask_pc, ask_env, ask_result, ask_response, ask_cache_errors, chat_history_db>>
excerptVars == <<ex_pc, ex_text, ex_max_length, ex_out>>
dedupVars == <<dd_pc, dd_chunks, dd_unique, dd_again>>
stageVars == <<st_env, st_pc, st_ctx, st_read, st_log>>
storeVars == <<vs_env, vs_pc, collections, vs_server, vs_handle, vs_result>>
alignVars == <<al_pc, al_results, al_include_sources, al_ctx>>
wordVars == <<wc_pc, wc_sentences, wc_chunk_size, wc_chunks>>
seedVars == <<sd_pc, sd_buffer, sd_piece, sd_overlap, sd_seed, sd_next>>
evictVars == <<ev_env, ev_pc, ev_result, ev_got, ev_doc, ev_del>>
mergeVars == <<mg_env, mg_pc, mg_existing>>
connVars == <<cx_env, cx_pc, cx_at, cx_cursor, cx_result, cx_tables, cx_queue, cx_ready,
              cx_completed, cx_now>>

vars == <<cacheVars, rerankVars, splitVars, pipeVars, askVars, excerptVars,
    dedupVars, stageVars, storeVars, connVars, alignVars, wordVars, seedVars,
    evictVars, mergeVars>>

----------------------------------------------------------------------------
(* Optional values *)
None == {}
Some(x) == {x}
Val(o) == CHOOSE x \in o : TRUE

----------------------------------------------------------------------------
(* Bounds of the model *)
MaxOps == 4          \* cache calls in one behaviour
MaxChunks == 6       \* candidates passed to _rerank_chunks
MaxRank == 2         \* comma-separated fields in the ranking the model returns
MaxTextLen == 4      \* characters in a page text
MaxChunkSize == 3    \* chunk_size ranges over 1..MaxChunkSize
MaxOverlap == 2      \* chunk_overlap ranges over 0..MaxOverlap
MaxMinChunk == 3     \* min_chunk_size ranges over 0..MaxMinChunk
MaxIndexed == 6      \* chunks of the course in the similarity index
MaxExcerptText == 6  \* characters in a source text passed to _create_excerpt
MaxExcerptLimit == 4 \* max_length ranges over 1..MaxExcerptLimit
MaxDedupLen == 4     \* chunks in the list passed to _deduplicate_chunks
NumRequests == 2     \* requests in flight at the same time
NumCalls == 3        \* VectorStore calls in flight for the same new course
NumCacheCalls == 3   \* CacheService calls in flight on the same key
MaxAlignChunks == 3  \* search results in the alignment specification
MaxBuffer == 3       \* characters in the buffer that overflows
NumAskers == 2       \* ask_question requests in flight beside the deletion
NumIngests == 2      \* document-ingestion tasks of the same course in flight
MaxSentences == 4    \* sentences in the page passed to _create_chunks
MaxSentenceWords == 3 \* words in a sentence
MaxWordChunk == 4    \* chunk_size of _create_chunks ranges over 1..MaxWordChunk

(* default_ttl = timedelta(hours=24), in units of 8 hours *)
DefaultTtl == 3

----------------------------------------------------------------------------
(* CacheService *)

\* hashlib.sha256(s).hexdigest(): collision-resistant, modelled as an
\* injective tagging of the hashed text.
Sha256(s) == <<"sha256", s>>

\* f"{query}:{course_id or 'all'}"  -- None and "" are both falsy
KeyString(query, course_id) ==
    query \o <<":">> \o
    (IF course_id = None \/ Val(course_id) = <<>> THEN <<"a", "l", "l">> ELSE Val(course_id))

generate_cache_key(query, course_id) == Sha256(KeyString(query, course_id))

\* json.dumps / json.loads of a JSON document
JsonDumps(v) == <<"json", v>>
JsonLoads(t) == t[2]

\* ttl = ttl or self.default_ttl  -- timedelta(0) is falsy
EffectiveTtl(ttl) ==
    IF ttl = None \/ Val(ttl) = 0 THEN DefaultTtl ELSE Val(ttl)

\* rows a SELECT ... WHERE cache_key = ? AND (expires_at IS NULL OR expires_at > ?) returns
LiveRow(key, t) ==
    /\ key \in DOMAIN query_cache
    /\ (query_cache[key].expires_at = None \/ Val(query_cache[key].expires_at) > t)

Restrict(f, S) == [k \in S |-> f[k]]
Upsert(f, k, row) == [x \in DOMAIN f \cup {k} |-> IF x = k THEN row ELSE f[x]]

\* a completed call: its name, arguments, return value, the number of rows it
\* deleted, the time it ran at and its position in the call sequence
Call(op, query, course_id, result, removed) ==
    [op |-> op, query |-> query, course_id |-> course_id, result |-> result,
     removed |-> removed, at |-> now, n |-> ops + 1]

NoCall == [op |-> "none", query |-> <<>>, course_id |-> None, result |-> None,
           removed |-> 0, at |-> 0, n |-> 0]

cache_response(query, response, course_id, ttl) ==
    LET cache_key == generate_cache_key(query, course_id)
        expires_at == now + EffectiveTtl(ttl)
        row == [response |-> JsonDumps(response), course_id |-> course_id,
                created_at |-> now, expires_at |-> Some(expires_at), hit_count |-> 0]
    IN  /\ ops < MaxOps
        /\ query_cache' = Upsert(query_cache, cache_key, row)
        /\ puts' = Upsert(puts, cache_key,
                          [query |-> query, course_id |-> course_id,
                           response |-> response, at |-> now, ttl |-> ttl])
        /\ stored' = stored \cup {<<query, course_id, response>>}
        /\ last' = Call("cache_response", query, course_id, None, 0)
        /\ ops' = ops + 1
        /\ UNCHANGED <<embedding_cache, concept_graph_cache, now>>

\* a variant that renews the expiry of the row it returns
get_cached_response_renewing(query, course_id) ==
    LET cache_key == generate_cache_key(query, course_id)
    IN  /\ ops < MaxOps
        /\ IF LiveRow(cache_key, now)
           THEN /\ query_cache' = [query_cache EXCEPT
                                      ![cache_key].hit_count = @ + 1,
                                      ![cache_key].expires_at = Some(now + DefaultTtl)]
                /\ last' = Call("get_cached_response", query, course_id,
                                 Some(JsonLoads(query_cache[cache_key].response)), 0)
           ELSE /\ query_cache' = query_cache
                /\ last' = Call("get_cached_response", query, course_id, None, 0)
        /\ ops' = ops + 1
        /\ UNCHANGED <<embedding_cache, concept_graph_cache, now, puts, stored>>

get_cached_response(query, course_id) ==
    LET cache_key == generate_cache_key(query, course_id)
    IN  /\ ops < MaxOps
        /\ IF LiveRow(cache_key, now)
           THEN /\ query_cache' = [query_cache EXCEPT ![cache_key].hit_count = @ + 1]
                /\ last' = Call("get_cached_response", query, course_id,
                                 Some(JsonLoads(query_cache[cache_key].response)), 0)
           ELSE /\ query_cache' = query_cache
                /\ last' = Call("get_cached_response", query, course_id, None, 0)
        /\ ops' = ops + 1
        /\ UNCHANGED <<embedding_cache, concept_graph_cache, now, puts, stored>>

\* _hash_text
hash_text(text) == Sha256(text)

cache_embedding(text, embedding) ==
    /\ ops < MaxOps
    /\ embedding_cache' = Upsert(embedding_cache, hash_text(text),
                                 [embedding |-> JsonDumps(embedding),
                                  model |-> "text-embedding-ada-002", created_at |-> now])
    /\ last' = Call("cache_embedding", text, None, None, 0)
    /\ ops' = ops + 1
    /\ UNCHANGED <<query_cache, concept_graph_cache, now, puts, stored>>

cache_concept_graph(course_id, graph_data) ==
    /\ ops < MaxOps
    /\ concept_graph_cache' = Upsert(concept_graph_cache, course_id,
                                     [graph_data |-> JsonDumps(graph_data),
                                      created_at |-> now, updated_at |-> now])
    /\ last' = Call("cache_concept_graph", <<>>, Some(course_id), None, 0)
    /\ ops' = ops + 1
    /\ UNCHANGED <<query_cache, embedding_cache, now, puts, stored>>

\* DELETE FROM query_cache WHERE expires_at < ?
clear_expired ==
    LET keep == {k \in DOMAIN query_cache :
                    ~(query_cache[k].expires_at # None /\ Val(query_cache[k].expires_at) < now)}
    IN  /\ ops < MaxOps
        /\ query_cache' = Restrict(query_cache, keep)
        /\ last' = Call("clear_expired", <<>>, None, None,
                         Cardinality(DOMAIN query_cache \ keep))
        /\ ops' = ops + 1
        /\ UNCHANGED <<embedding_cache, concept_graph_cache, now, puts, stored>>

\* mutant of clear_course_cache: the DELETE also matches the rows with no course
clear_course_cache_and_untagged(course_id) ==
    LET keep == {k \in DOMAIN query_cache :
                    query_cache[k].course_id # Some(course_id) /\ query_cache[k].course_id # None}
    IN  /\ ops < MaxOps
        /\ query_cache' = Restrict(query_cache, keep)
        /\ concept_graph_cache' =
               Restrict(concept_graph_cache, DOMAIN concept_graph_cache \ {course_id})
        /\ puts' = Restrict(puts, {k \in DOMAIN puts : puts[k].course_id # Some(course_id)})
        /\ last' = Call("clear_course_cache", <<>>, Some(course_id), None,
                         Cardinality(DOMAIN query_cache \ keep))
        /\ ops' = ops + 1
        /\ UNCHANGED <<embedding_cache, now, stored>>

\* DELETE FROM query_cache WHERE course_id = ?; DELETE FROM concept_graph_cache WHERE course_id = ?
\* (a NULL course_id column never equals the parameter)
clear_course_cache(course_id) ==
    LET keep == {k \in DOMAIN query_cache : query_cache[k].course_id # Some(course_id)}
    IN  /\ ops < MaxOps
        /\ query_cache' = Restrict(query_cache, keep)
        /\ concept_graph_cache' =
               Restrict(concept_graph_cache, DOMAIN concept_graph_cache \ {course_id})
        /\ puts' = Restrict(puts, {k \in DOMAIN puts : puts[k].course_id # Some(course_id)})
        /\ last' = Call("clear_course_cache", <<>>, Some(course_id), None,
                         Cardinality(DOMAIN query_cache \ keep))
        /\ ops' = ops + 1
        /\ UNCHANGED <<embedding_cache, now, stored>>

\* the wall clock advances between calls
Tick(d) ==
    /\ ops < MaxOps
    /\ now' = now + d
    /\ ops' = ops + 1
    /\ UNCHANGED <<query_cache, embedding_cache, concept_graph_cache, last, puts, stored>>

\* the cache right after initialize(): the tables exist and are empty
CacheIdle ==
    /\ query_cache = <<>>
    /\ embedding_cache = <<>>
    /\ concept_graph_cache = <<>>
    /\ now = 0
    /\ last = NoCall
    /\ puts = <<>>
    /\ stored = {}
    /\ ops = 0

CacheInit == CacheIdle

----------------------------------------------------------------------------
(* RetrievalAgent._rerank_chunks *)

\* self.rerank_top_k
rerank_top_k == 5

\* The completion call either raises or returns a text.  The text is modelled
\* by its comma-separated fields after strip(): a field is {i} when int()
\* accepts it as the integer i, and {} when int() raises ValueError on it
\* (the empty text is the single field {}).
LlmRaises == [raised |-> TRUE, fields |-> <<>>]
LlmReturns(fields) == [raised |-> FALSE, fields |-> fields]

\* [int(x.strip()) for x in response.strip().split(',')] raises on a bad field
RankingParses(fields) == \A i \in 1..Len(fields) : fields[i] # None

RECURSIVE PickRanked(_, _)
\* for idx in ranking: if 0 <= idx < len(chunks): reranked.append(chunks[idx])
PickRanked(ranking, chunks) ==
    IF ranking = <<>> THEN <<>>
    ELSE LET idx == Val(Head(ranking))
         IN  (IF 0 <= idx /\ idx < Len(chunks) THEN <<chunks[idx + 1]>> ELSE <<>>)
             \o PickRanked(Tail(ranking), chunks)

InSeq(x, seq) == \E i \in 1..Len(seq) : seq[i] = x

RECURSIVE AppendMissing(_, _)
\* for chunk in chunks: if chunk not in reranked: reranked.append(chunk)
AppendMissing(reranked, chunks) ==
    IF chunks = <<>> THEN reranked
    ELSE AppendMissing(IF InSeq(Head(chunks), reranked) THEN reranked
                       ELSE Append(reranked, Head(chunks)),
                       Tail(chunks))

\* a variant that returns only the chunks the ranking names
rerank_chunks_drop_unranked(chunks, llm) ==
    IF chunks = <<>> THEN <<>>
    ELSE IF Len(chunks) <= rerank_top_k THEN chunks
    ELSE IF llm.raised \/ ~RankingParses(llm.fields) THEN chunks
    ELSE PickRanked(llm.fields, chunks)

rerank_chunks(chunks, llm) ==
    IF chunks = <<>> THEN <<>>
    ELSE IF Len(chunks) <= rerank_top_k THEN chunks
    ELSE IF llm.raised \/ ~RankingParses(llm.fields) THEN chunks
    ELSE AppendMissing(PickRanked(llm.fields, chunks), chunks)

RerankCall ==
    /\ rr_pc = "start"
    /\ rr_out' = rerank_chunks(rr_chunks, rr_llm)
    /\ rr_called' = (Len(rr_chunks) > rerank_top_k)
    /\ rr_pc' = "done"
    /\ UNCHANGED <<rr_chunks, rr_llm>>

\* a deduplicated candidate list: n chunks with pairwise different chunk_id
\* the chunks of one document, two to a page
Candidates(n) ==
    [i \in 1..n |-> [chunk_id |-> i, content |-> "text",
                     metadata |-> [document_id |-> "doc", page |-> (i + 1) \div 2]]]

RankFields == {None} \cup {Some(i) : i \in (0 - 1)..MaxChunks}
Rankings == UNION {[1..n -> RankFields] : n \in 1..MaxRank}

RerankInit ==
    /\ rr_pc = "start"
    /\ rr_chunks \in {Candidates(n) : n \in 0..MaxChunks}
    /\ rr_llm \in {LlmRaises} \cup {LlmReturns(f) : f \in Rankings}
    /\ rr_out = <<>>
    /\ rr_called = FALSE

RerankIdle ==
    /\ rr_pc = "idle"
    /\ rr_chunks = <<>>
    /\ rr_llm = LlmRaises
    /\ rr_out = <<>>
    /\ rr_called = FALSE

----------------------------------------------------------------------------
(* DocumentProcessor._recursive_split *)

NL == "\n"

\* separators = ["\n\n", "\n", ". ", " ", ""]
DefaultSeparators == << <<NL, NL>>, <<NL>>, <<".", " ">>, <<" ">>, <<>> >>

IsSpace(ch) == ch \in {" ", NL}

RECURSIVE LStrip(_)
LStrip(s) == IF s # <<>> /\ IsSpace(Head(s)) THEN LStrip(Tail(s)) ELSE s

RECURSIVE RStrip(_)
RStrip(s) == IF s # <<>> /\ IsSpace(s[Len(s)]) THEN RStrip(SubSeq(s, 1, Len(s) - 1)) ELSE s

\* str.strip()
Strip(s) == RStrip(LStrip(s))

StartsWith(s, prefix) == Len(s) >= Len(prefix) /\ SubSeq(s, 1, Len(prefix)) = prefix

RECURSIVE SplitBy(_, _, _)
\* str.split(sep) for a non-empty sep; field is the text read since the last separator
SplitBy(s, sep, field) ==
    IF s = <<>> THEN <<field>>
    ELSE IF StartsWith(s, sep)
         THEN <<field>> \o SplitBy(SubSeq(s, Len(sep) + 1, Len(s)), sep, <<>>)
         ELSE SplitBy(Tail(s), sep, Append(field, Head(s)))

\* text.split(separator) if separator else list(text)
Splits(s, separator) ==
    IF separator # <<>> THEN SplitBy(s, separator, <<>>)
    ELSE [i \in 1..Len(s) |-> <<s[i]>>]

\* current_chunk[-chunk_overlap:] if len(current_chunk) > chunk_overlap else current_chunk
\* (s[-0:] is the whole of s)
Overlap(current_chunk, ov) ==
    IF Len(current_chunk) > ov
    THEN IF ov = 0 THEN current_chunk
         ELSE SubSeq(current_chunk, Len(current_chunk) - ov + 1, Len(current_chunk))
    ELSE current_chunk

RECURSIVE recursive_split(_, _, _, _, _)
RECURSIVE SplitLoop(_, _, _, _, _, _, _, _)

\* mutant of SplitLoop: the flush of the remaining buffer after the loop is missing
SplitLoopNoFinalFlush(splits, i, current_chunk, chunks, separators, cs, ov, mn) ==
    LET separator == Head(separators)
        new_separators == Tail(separators)
        flushed == IF Len(current_chunk) >= mn
                   THEN Append(chunks, Strip(current_chunk)) ELSE chunks
    IN  IF i > Len(splits) THEN chunks
        ELSE LET piece == splits[i] \o separator
             IN  IF Len(current_chunk) + Len(piece) > cs
                 THEN IF Len(piece) > cs /\ new_separators # <<>>
                      THEN SplitLoop(splits, i + 1, <<>>,
                                     flushed \o recursive_split(piece, new_separators, cs, ov, mn),
                                     separators, cs, ov, mn)
                      ELSE SplitLoop(splits, i + 1, Overlap(current_chunk, ov) \o piece,
                                     flushed, separators, cs, ov, mn)
                 ELSE SplitLoop(splits, i + 1, current_chunk \o piece, chunks,
                                separators, cs, ov, mn)

\* the body of `for split in splits` from the i-th split on, and the final flush
SplitLoop(splits, i, current_chunk, chunks, separators, cs, ov, mn) ==
    LET separator == Head(separators)
        new_separators == Tail(separators)
        flushed == IF Len(current_chunk) >= mn
                   THEN Append(chunks, Strip(current_chunk)) ELSE chunks
    IN  IF i > Len(splits) THEN flushed
        ELSE LET piece == splits[i] \o separator
             IN  IF Len(current_chunk) + Len(piece) > cs
                 THEN IF Len(piece) > cs /\ new_separators # <<>>
                      THEN SplitLoop(splits, i + 1, <<>>,
                                     flushed \o recursive_split(piece, new_separators, cs, ov, mn),
                                     separators, cs, ov, mn)
                      ELSE SplitLoop(splits, i + 1, Overlap(current_chunk, ov) \o piece,
                                     flushed, separators, cs, ov, mn)
                 ELSE SplitLoop(splits, i + 1, current_chunk \o piece, chunks,
                                separators, cs, ov, mn)

recursive_split(s, separators, cs, ov, mn) ==
    SplitLoop(Splits(s, Head(separators)), 1, <<>>, <<>>, separators, cs, ov, mn)

\* _chunk_document, one page: `if len(chunk_content) < min_chunk_size: continue`
chunk_document(page_chunks, mn) == SelectSeq(page_chunks, LAMBDA c : Len(c) >= mn)

SplitCall ==
    /\ sp_pc = "start"
    /\ sp_chunks' = recursive_split(sp_text, DefaultSeparators, chunk_size, chunk_overlap,
                                    min_chunk_size)
    /\ sp_pc' = "done"
    /\ UNCHANGED <<sp_text, chunk_size, chunk_overlap, min_chunk_size>>

Chars == {"a", ".", " ", NL}
PageTexts == UNION {[1..n -> Chars] : n \in 0..MaxTextLen}

SplitInit ==
    /\ sp_pc = "start"
    /\ sp_text \in PageTexts
    /\ chunk_size \in 1..MaxChunkSize
    /\ chunk_overlap \in 0..MaxOverlap
    /\ min_chunk_size \in 0..MaxMinChunk
    /\ sp_chunks = <<>>

SplitIdle ==
    /\ sp_pc = "idle"
    /\ sp_text = <<>>
    /\ chunk_size = 1
    /\ chunk_overlap = 0
    /\ min_chunk_size = 0
    /\ sp_chunks = <<>>

----------------------------------------------------------------------------
(* The question pipeline, src tree: src/ai-service/src/agents                *)

\* An outcome of a completion or embedding call: it raises, or returns `text`
Raises == [raised |-> TRUE, text |-> <<>>]
Returns(t) == [raised |-> FALSE, text |-> t]

Min(a, b) == IF a < b THEN a ELSE b
Prefix(seq, n) == SubSeq(seq, 1, Min(n, Len(seq)))

\* self.top_k of the src RetrievalAgent
top_k == 8

\* _expand_query: the lines of the reply, stripped and non-blank, at most two
\* of them, after the question itself; the question alone when the call fails
expand_query(question, llm) ==
    IF llm.raised THEN <<question>>
    ELSE <<question>> \o
         Prefix(SelectSeq([i \in 1..Len(llm.text) |-> Strip(llm.text[i])],
                          LAMBDA q : q # <<>>), 2)

\* VectorStoreService.query: the n_results nearest chunks of the collection
IndexQuery(indexed, n_results) == Candidates(Min(indexed, n_results))

\* _retrieve_chunks for the k-th query: any exception of vector_store.query
\* (the embedding call of _generate_embeddings or the collection query) is
\* logged and [] is returned
retrieve_chunks(e, k) ==
    IF e.embed_raises[k] \/ e.index_raises THEN <<>> ELSE IndexQuery(e.indexed, top_k)

\* chunk.get("chunk_id", chunk.get("id", ""))
ChunkIdentity(chunk) ==
    IF "chunk_id" \in DOMAIN chunk THEN chunk.chunk_id
    ELSE IF "id" \in DOMAIN chunk THEN chunk.id
    ELSE ""

RECURSIVE DedupFrom(_, _, _)
DedupFrom(chunks, seen, unique) ==
    IF chunks = <<>> THEN unique
    ELSE LET chunk_id == ChunkIdentity(Head(chunks))
         IN  IF chunk_id \notin seen
             THEN DedupFrom(Tail(chunks), seen \cup {chunk_id}, Append(unique, Head(chunks)))
             ELSE DedupFrom(Tail(chunks), seen, unique)

Reverse(seq) == [i \in 1..Len(seq) |-> seq[Len(seq) + 1 - i]]

\* a variant that keeps the last occurrence of each identity
deduplicate_chunks_keep_last(chunks) == Reverse(DedupFrom(Reverse(chunks), {}, <<>>))

\* _deduplicate_chunks
deduplicate_chunks(chunks) == DedupFrom(chunks, {}, <<>>)

DedupCall ==
    /\ dd_pc = "start"
    /\ dd_unique' = deduplicate_chunks(dd_chunks)
    /\ dd_pc' = "once"
    /\ UNCHANGED <<dd_chunks, dd_again>>

DedupAgain ==
    /\ dd_pc = "once"
    /\ dd_again' = deduplicate_chunks(dd_unique)
    /\ dd_pc' = "twice"
    /\ UNCHANGED <<dd_chunks, dd_unique>>

\* chunks as the vector stores return them: identified by chunk_id, by id, or
\* by neither; two chunks may share an identity and differ in content
DedupChunks ==
    {[chunk_id |-> "a", content |-> "x"], [chunk_id |-> "a", content |-> "y"],
     [chunk_id |-> "b", content |-> "x"], [id |-> "a", content |-> "z"],
     [id |-> "b", content |-> "x"], [content |-> "w"]}

DedupInit ==
    /\ dd_pc = "start"
    /\ dd_chunks \in UNION {[1..n -> DedupChunks] : n \in 0..MaxDedupLen}
    /\ dd_unique = <<>>
    /\ dd_again = <<>>

DedupIdle ==
    /\ dd_pc = "idle"
    /\ dd_chunks = <<>>
    /\ dd_unique = <<>>
    /\ dd_again = <<>>

RECURSIVE RetrieveAll(_, _, _)
\* the loop `for query in expanded_queries: all_chunks.extend(...)`
RetrieveAll(e, k, n) ==
    IF k > n THEN <<>> ELSE retrieve_chunks(e, k) \o RetrieveAll(e, k + 1, n)

\* RetrievalAgent.process (src)
RetrieveSrc ==
    /\ impl = "src"
    /\ pc = "start"
    /\ LET expanded_queries == expand_query(ctx.question, env.expand)
           all_chunks == RetrieveAll(env, 1, Len(expanded_queries))
           unique_chunks == deduplicate_chunks(all_chunks)
           reranked_chunks == rerank_chunks(unique_chunks, env.rerank)
       IN  /\ ctx' = [ctx EXCEPT !.retrieved_chunks = Prefix(reranked_chunks, rerank_top_k),
                                 !.queries_used = expanded_queries,
                                 !.unique_chunks = unique_chunks]
           /\ called' = called \cup {"expand"}
                               \cup {"embed"}
                               \cup (IF Len(unique_chunks) > rerank_top_k THEN {"rerank"} ELSE {})
    /\ pc' = "retrieved"
    /\ UNCHANGED <<impl, env, disk_cache, error, returned>>

\* The reply of the composition call is a sequence of tokens: whitespace " ",
\* the Markdown fences "<fence>json" and "<fence>", a JSON object "{answer}" and prose "text".
EndsWith(t, suffix) ==
    Len(t) >= Len(suffix) /\ SubSeq(t, Len(t) - Len(suffix) + 1, Len(t)) = suffix

\* response.strip(), then the leading "<fence>json", the leading "<fence>" and the
\* trailing "<fence>" are cut off
StripFences(t) ==
    LET r0 == Strip(t)
        r1 == IF StartsWith(r0, <<"<fence>json">>) THEN Tail(r0) ELSE r0
        r2 == IF StartsWith(r1, <<"<fence>">>) THEN Tail(r1) ELSE r1
    IN  IF EndsWith(r2, <<"<fence>">>) THEN SubSeq(r2, 1, Len(r2) - 1) ELSE r2

\* json.loads accepts a text that is one JSON value between optional whitespace
IsJson(t) == Strip(t) = <<"{answer}">>

\* the dict the JSON object "{answer}" decodes to
DecodedAnswer ==
    [definition |-> <<"definition">>, explanation |-> <<"explanation">>,
     example |-> <<"example">>, pitfalls |-> <<"pitfall">>]

\* a variant of the fallback that leaves `definition` empty
generate_structured_answer_empty_definition(t) ==
    LET cleaned == StripFences(t)
    IN  IF IsJson(cleaned) THEN DecodedAnswer
        ELSE [definition |-> <<>>, explanation |-> cleaned, example |-> <<>>, pitfalls |-> <<>>]

\* _generate_structured_answer once the completion call has returned
generate_structured_answer(t) ==
    LET cleaned == StripFences(t)
    IN  IF IsJson(cleaned) THEN DecodedAnswer
        ELSE [definition |-> <<"Unable to generate structured response">>,
              explanation |-> cleaned,
              example |-> <<>>,
              pitfalls |-> <<>>]

\* PedagogyAgent.process (src)
ComposeSrc ==
    /\ impl = "src"
    /\ pc = "retrieved"
    /\ called' = called \cup {"compose"}
    /\ IF env.compose.raised
       THEN /\ pc' = "error"
            /\ error' = Some("compose")
            /\ ctx' = ctx
       ELSE LET structured_answer == generate_structured_answer(env.compose.text)
            IN  /\ ctx' = [ctx EXCEPT !.structured_answer = Some(structured_answer),
                                      !.misconceptions =
                                          IF structured_answer.pitfalls # <<>>
                                          THEN structured_answer.pitfalls ELSE @]
                /\ pc' = "composed"
                /\ error' = error
    /\ UNCHANGED <<impl, env, disk_cache, returned>>

\* An outcome of a completion call whose reply is read with json.loads: the
\* call raises, or the reply is no JSON, or it decodes to `value`
JsonRaises(default) == [raised |-> TRUE, parsed |-> FALSE, value |-> default]
JsonMalformed(default) == [raised |-> FALSE, parsed |-> FALSE, value |-> default]
JsonReturns(v) == [raised |-> FALSE, parsed |-> TRUE, value |-> v]

\* the dict built by `scores[chunk_id] = ...` over enumerate(chunks): a chunk id
\* keeps the value of its last position
ScoresDict(chunks, by_position) ==
    [id \in {chunks[i].chunk_id : i \in 1..Len(chunks)} |->
        LET last_i == CHOOSE i \in 1..Len(chunks) :
                          /\ chunks[i].chunk_id = id
                          /\ \A j \in 1..Len(chunks) : chunks[j].chunk_id = id => j <= i
        IN  by_position[last_i]]

\* _score_sources: the reply decodes to a list of scores (in percent); a chunk
\* the list is too short for scores 50, and every chunk scores 70 when the call
\* or the parse fails
score_sources(chunks, llm) ==
    IF llm.raised \/ ~llm.parsed
    THEN ScoresDict(chunks, [i \in 1..Len(chunks) |-> 70])
    ELSE ScoresDict(chunks, [i \in 1..Len(chunks) |->
                                IF i <= Len(llm.value) THEN llm.value[i] ELSE 50])

\* what _verify_answer returns when there is nothing to verify
NotVerified == [verified |-> FALSE, confidence |-> 0, potential_hallucinations |-> <<>>]

\* a variant that reports a failed check as not verified
verify_answer_unverified_on_failure(answer, sources, llm) ==
    IF answer = None \/ sources = <<>> THEN NotVerified
    ELSE IF llm.raised \/ ~llm.parsed THEN NotVerified
    ELSE llm.value

\* _verify_answer: the reply decodes to the verification result
verify_answer(answer, sources, llm) ==
    IF answer = None \/ sources = <<>> THEN NotVerified
    ELSE IF llm.raised \/ ~llm.parsed
    THEN [verified |-> TRUE, confidence |-> 50, potential_hallucinations |-> <<>>]
    ELSE llm.value

RECURSIVE InsertDesc(_, _, _)
\* index i put into a list of indices sorted by keys, largest first, after the
\* indices of equal key
InsertDesc(i, sorted, keys) ==
    IF sorted = <<>> THEN <<i>>
    ELSE IF keys[Head(sorted)] >= keys[i]
         THEN <<Head(sorted)>> \o InsertDesc(i, Tail(sorted), keys)
         ELSE <<i>> \o sorted

RECURSIVE SortedFrom(_, _, _)
SortedFrom(i, sorted, keys) ==
    IF i > Len(keys) THEN sorted
    ELSE SortedFrom(i + 1, InsertDesc(i, sorted, keys), keys)

\* list.sort(key=..., reverse=True), which is stable: the items in the order
\* of their keys, largest first
SortDesc(items, keys) ==
    LET order == SortedFrom(1, <<>>, keys)
    IN  [i \in 1..Len(items) |-> items[order[i]]]

\* _build_source_list
build_source_list(chunks, scores) ==
    SortDesc([i \in 1..Len(chunks) |->
                 [chunk_id |-> chunks[i].chunk_id,
                  document_id |-> chunks[i].metadata.document_id,
                  page |-> chunks[i].metadata.page,
                  reliability_score |-> scores[chunks[i].chunk_id]]],
             [i \in 1..Len(chunks) |-> scores[chunks[i].chunk_id]])

\* AgentOrchestrator._build_response (src)
build_response(c) ==
    [answer |-> c.structured_answer,
     sources |-> c.sources,
     misconception_warning |-> [detected |-> Len(c.misconceptions) > 0,
                                issues |-> c.misconceptions],
     metadata |-> [retrieval |-> [unique_chunks |-> Len(c.unique_chunks),
                                  final_chunks |-> Len(c.retrieved_chunks),
                                  queries_used |-> c.queries_used],
                   verification |-> c.verification]]

\* VerificationAgent.process (src), then _build_response
VerifySrc ==
    /\ impl = "src"
    /\ pc = "composed"
    /\ LET scored_sources == score_sources(ctx.retrieved_chunks, env.score)
           verification_result ==
               verify_answer(ctx.structured_answer, ctx.retrieved_chunks, env.verify)
           verified == [ctx EXCEPT
               !.sources = build_source_list(ctx.retrieved_chunks, scored_sources),
               !.misconceptions = @ \o verification_result.potential_hallucinations,
               !.verification = Some(
                   [verified |-> verification_result.verified,
                    confidence |-> verification_result.confidence,
                    hallucination_flags |->
                        Len(verification_result.potential_hallucinations)])]
       IN  /\ ctx' = verified
           /\ returned' = Some(build_response(verified))
           /\ called' = called
                  \cup (IF ctx.retrieved_chunks # <<>> THEN {"score"} ELSE {})
                  \cup (IF ctx.structured_answer # None /\ ctx.retrieved_chunks # <<>>
                        THEN {"verify"} ELSE {})
    /\ pc' = "done"
    /\ UNCHANGED <<impl, env, disk_cache, error>>

----------------------------------------------------------------------------
(* The question pipeline, top-level tree: src/ai-service/agents and          *)
(* src/ai-service/services                                                   *)

\* self.min_score of the top-level RetrievalAgent, in percent
min_score == 50

\* self.top_k of the top-level RetrievalAgent
agents_top_k == 10

\* VectorStore.search once the embedding is there: the nearest chunks, nearest
\* first, two chunks a page; score = 1 - distance, in percent
SearchResults(e) ==
    IF e.index_raises THEN <<>>
    ELSE [i \in 1..Min(agents_top_k, e.indexed) |->
             [id |-> i - 1, score |-> e.top_score - 10 * (i - 1),
              document_id |-> "doc", page |-> (i + 1) \div 2]]

RECURSIVE Sum(_)
Sum(seq) == IF seq = <<>> THEN 0 ELSE Head(seq) + Sum(Tail(seq))

\* a float kept exact: sum / n percent
Ratio(sum, n) == [sum |-> sum, n |-> n]
RatioMin(a, b) == IF a.sum * b.n <= b.sum * a.n THEN a ELSE b
RatioMax(a, b) == IF a.sum * b.n >= b.sum * a.n THEN a ELSE b

\* a variant without the fallback to the top 3
filter_results_no_fallback(results) ==
    SelectSeq(results, LAMBDA r : r.score >= min_score)

\* the results with score >= min_score, or the top 3 when there are none
filter_results(results) ==
    LET above == SelectSeq(results, LAMBDA r : r.score >= min_score)
    IN  IF above = <<>> /\ results # <<>> THEN Prefix(results, 3) ELSE above

\* the initial curriculum alignment: min(avg_score, 1.0), 0.0 without chunks
retrieval_alignment(filtered_results) ==
    LET scores == [i \in 1..Len(filtered_results) |-> filtered_results[i].score]
    IN  IF filtered_results # <<>>
        THEN RatioMin(Ratio(Sum(scores), Len(scores)), Ratio(100, 1))
        ELSE Ratio(0, 1)

\* RetrievalAgent.process (top-level tree), with VectorStore.search and
\* EmbeddingService.embed_text
RetrieveAgents ==
    /\ impl = "agents"
    /\ pc = "start"
    /\ LET empty == env.indexed = 0
           cached == ctx.question \in disk_cache
           embeds == ~empty /\ ~cached
       IN  IF embeds /\ env.embed_raises[1]
           THEN /\ pc' = "error"
                /\ error' = Some("embed")
                /\ called' = called \cup {"embed"}
                /\ UNCHANGED <<ctx, disk_cache>>
           ELSE LET results == IF empty THEN <<>> ELSE SearchResults(env)
                    filtered_results == filter_results(results)
                IN  /\ ctx' = [ctx EXCEPT
                           !.retrieved_chunks = filtered_results,
                           !.curriculum_alignment = retrieval_alignment(filtered_results)]
                    /\ called' = called \cup (IF embeds THEN {"embed"} ELSE {})
                    /\ disk_cache' = disk_cache \cup (IF embeds THEN {ctx.question} ELSE {})
                    /\ pc' = "retrieved"
                    /\ error' = error
    /\ UNCHANGED <<impl, env, returned>>

\* _calculate_confidence, in percent
calculate_confidence(answer, chunks) ==
    LET base == 50 + (IF chunks # <<>> THEN Min(4 * Len(chunks), 20) ELSE 0)
                   + (IF answer.definition # <<>> THEN 10 ELSE 0)
                   + (IF answer.explanation # <<>> THEN 10 ELSE 0)
                   + (IF answer.example # <<>> THEN 5 ELSE 0)
                   + (IF answer.pitfalls # <<>> THEN 5 ELSE 0)
    IN  Min(base, 100)

\* what PedagogyAgent.process (top-level tree) makes of the completion text
structured_answer_of(t) ==
    IF IsJson(t) THEN DecodedAnswer
    ELSE [definition |-> t, explanation |-> <<>>, example |-> <<>>, pitfalls |-> <<>>]

\* PedagogyAgent.process (top-level tree)
ComposeAgents ==
    /\ impl = "agents"
    /\ pc = "retrieved"
    /\ called' = called \cup {"compose"}
    /\ IF env.compose.raised
       THEN /\ pc' = "error"
            /\ error' = Some("compose")
            /\ ctx' = ctx
       ELSE LET answer == structured_answer_of(env.compose.text)
            IN  /\ ctx' = [ctx EXCEPT
                       !.structured_answer = Some(answer),
                       !.confidence = calculate_confidence(answer, ctx.retrieved_chunks)]
                /\ pc' = "composed"
                /\ error' = error
    /\ UNCHANGED <<impl, env, disk_cache, returned>>

RECURSIVE SourcesFrom(_, _, _)
SourcesFrom(chunks, seen_sources, sources) ==
    IF chunks = <<>> THEN sources
    ELSE LET chunk == Head(chunks)
             source_key == <<chunk.document_id, chunk.page>>
         IN  IF source_key \in seen_sources
             THEN SourcesFrom(Tail(chunks), seen_sources, sources)
             ELSE SourcesFrom(Tail(chunks), seen_sources \cup {source_key},
                              Append(sources, [page |-> chunk.page, chunk_id |-> chunk.id,
                                               confidence |-> chunk.score]))

\* _extract_sources: one source a (document, page), best first, five at most
extract_sources(chunks) ==
    LET sources == SourcesFrom(chunks, {}, <<>>)
    IN  Prefix(SortDesc(sources, [i \in 1..Len(sources) |-> sources[i].confidence]), 5)

\* _detect_misconceptions once the completion call has returned
detect_misconceptions(llm) ==
    IF ~llm.parsed THEN <<>>
    ELSE IF ~llm.value.has_misconception THEN <<>>
    ELSE [i \in 1..Len(llm.value.misconceptions) |-> <<"warning", llm.value.misconceptions[i]>>]

\* a variant that reports the composed confidence as it is
format_response_full_confidence(c) ==
    [answer |-> c.structured_answer,
     sources |-> IF c.retrieved_chunks # <<>> THEN c.sources ELSE <<>>,
     misconception_warning |-> IF c.misconceptions # <<>>
                               THEN Some(c.misconceptions[1]) ELSE None,
     curriculum_alignment |-> c.curriculum_alignment,
     confidence |-> c.confidence,
     has_course_material |-> c.retrieved_chunks # <<>>]

\* AgentOrchestrator._format_response (top-level tree)
format_response(c) ==
    [answer |-> c.structured_answer,
     sources |-> IF c.retrieved_chunks # <<>> THEN c.sources ELSE <<>>,
     misconception_warning |-> IF c.misconceptions # <<>>
                               THEN Some(c.misconceptions[1]) ELSE None,
     curriculum_alignment |-> c.curriculum_alignment,
     confidence |-> IF c.retrieved_chunks = <<>>
                    THEN Min((c.confidence * 4) \div 5, 85) ELSE c.confidence,
     has_course_material |-> c.retrieved_chunks # <<>>]

\* a variant that sets the alignment to the mean source confidence
update_alignment_overwrite(alignment, sources) ==
    LET confidences == [i \in 1..Len(sources) |-> sources[i].confidence]
    IN  IF sources # <<>> THEN Ratio(Sum(confidences), Len(confidences)) ELSE alignment

\* if context.sources: curriculum_alignment = max(curriculum_alignment, avg_confidence)
update_alignment(alignment, sources) ==
    LET confidences == [i \in 1..Len(sources) |-> sources[i].confidence]
    IN  IF sources # <<>>
        THEN RatioMax(alignment, Ratio(Sum(confidences), Len(confidences)))
        ELSE alignment

\* VerificationAgent.process (top-level tree), then _format_response
VerifyAgents ==
    /\ impl = "agents"
    /\ pc = "composed"
    /\ LET detects == env.detect_misconceptions
           sources == IF env.include_sources
                      THEN extract_sources(ctx.retrieved_chunks) ELSE ctx.sources
           verified == [ctx EXCEPT
               !.sources = sources,
               !.misconceptions = IF detects THEN detect_misconceptions(env.detect) ELSE @,
               !.curriculum_alignment = update_alignment(@, sources)]
       IN  /\ called' = called \cup (IF detects THEN {"detect"} ELSE {})
           /\ IF detects /\ env.detect.raised
              THEN /\ pc' = "error"
                   /\ error' = Some("detect")
                   /\ ctx' = [ctx EXCEPT !.sources = sources]
                   /\ returned' = returned
              ELSE /\ pc' = "done"
                   /\ error' = error
                   /\ ctx' = verified
                   /\ returned' = Some(format_response(verified))
    /\ UNCHANGED <<impl, env, disk_cache>>

----------------------------------------------------------------------------
(* One request, under each behaviour of the external capabilities           *)

\* AgentContext(question=..., course_id=...): the lists that default to None
\* are empty, which the code treats alike
NewContext ==
    [question |-> <<"q">>, course_id |-> Some(<<"c">>),
     retrieved_chunks |-> <<>>, structured_answer |-> None, sources |-> <<>>,
     misconceptions |-> <<>>, queries_used |-> <<>>, unique_chunks |-> <<>>,
     verification |-> None, confidence |-> 0, curriculum_alignment |-> Ratio(0, 1)]

ExpandReplies ==
    {Raises, Returns(<<>>), Returns(<< <<"q", "1">> >>),
     Returns(<< <<" ", "q", "1">>, <<>>, <<"q", "2">>, <<"q", "3">> >>)}
RerankReplies == {LlmRaises, LlmReturns(<<None>>), LlmReturns(<<Some(5), Some(0), Some(9)>>)}
ComposeReplies ==
    {Raises, Returns(<<"{answer}">>), Returns(<<"<fence>json", "{answer}", "<fence>">>),
     Returns(<<"text">>), Returns(<<" ", "text", "{answer}", "<fence>">>)}
ScoreReplies == {JsonRaises(<<>>), JsonMalformed(<<>>), JsonReturns(<<90, 80>>)}
VerifyReplies ==
    {JsonRaises(NotVerified), JsonMalformed(NotVerified),
     JsonReturns([verified |-> FALSE, confidence |-> 90,
                  potential_hallucinations |-> <<"unsupported claim">>])}
NoMisconception == [has_misconception |-> FALSE, misconceptions |-> <<>>]
DetectReplies ==
    {JsonRaises(NoMisconception), JsonMalformed(NoMisconception), JsonReturns(NoMisconception),
     JsonReturns([has_misconception |-> TRUE, misconceptions |-> <<"m1", "m2">>])}

\* the capabilities the src tree calls; the others are not called and held fixed
SrcEnvs ==
    [expand : ExpandReplies, embed_raises : [1..3 -> BOOLEAN], index_raises : BOOLEAN,
     indexed : 0..MaxIndexed, top_score : {90}, rerank : RerankReplies,
     compose : ComposeReplies, score : ScoreReplies, verify : VerifyReplies,
     detect : {JsonReturns(NoMisconception)}, cached : {FALSE},
     include_sources : {TRUE}, detect_misconceptions : {TRUE}]

\* the capabilities the top-level tree calls
AgentsEnvs ==
    [expand : {Raises}, embed_raises : {[k \in 1..3 |-> b] : b \in BOOLEAN},
     index_raises : BOOLEAN, indexed : 0..MaxIndexed, top_score : {90, 40},
     rerank : {LlmRaises}, compose : ComposeReplies, score : {JsonRaises(<<>>)},
     verify : {JsonRaises(NotVerified)}, detect : DetectReplies, cached : BOOLEAN,
     include_sources : BOOLEAN, detect_misconceptions : BOOLEAN]

PipeInit ==
    /\ \/ impl = "src" /\ env \in SrcEnvs
       \/ impl = "agents" /\ env \in AgentsEnvs
    /\ disk_cache = IF env.cached THEN {NewContext.question} ELSE {}
    /\ pc = "start"
    /\ ctx = NewContext
    /\ called = {}
    /\ error = None
    /\ returned = None

PipeIdle ==
    /\ impl = "none"
    /\ pc = "idle"
    /\ env = <<>>
    /\ ctx = <<>>
    /\ called = {}
    /\ disk_cache = {}
    /\ error = None
    /\ returned = None

----------------------------------------------------------------------------
(* POST /ask: src/ai-service/src/routes/chat.py                              *)

\* a stored payload json.loads rejects
CorruptPayload == <<"corrupt", <<>>>>
IsJsonText(t) == t[1] = "json"

\* the reply of the endpoint: AskResponse(success=True, data=...) is status
\* 200; HTTPException(status_code=n) and an unhandled exception are status n
\* and 500
Reply(status, data) == [status |-> status, data |-> data]

\* response_data, without the random messageId and the measured time
response_data(result) ==
    [answer |-> result.answer, sources |-> result.sources,
     misconceptionWarning |-> result.misconception_warning,
     metadata |-> [retrievedChunks |-> Len(result.sources)]]

\* ask_question up to the end of `await cache_service.get_cached_response`
AskLookup ==
    /\ ask_pc = "start"
    /\ IF Strip(ask_env.question) = <<>>
       THEN /\ ask_response' = Some(Reply(400, None))
            /\ ask_pc' = "done"
            /\ UNCHANGED <<cacheVars, ask_cache_errors>>
       ELSE IF ~ask_env.cache_service
       THEN /\ ask_pc' = "lookup_done"
            /\ UNCHANGED <<cacheVars, ask_response, ask_cache_errors>>
       ELSE LET cache_key == generate_cache_key(ask_env.question, ask_env.course_id)
            IN  IF ask_env.db_error_on_get
                THEN \* self.db.execute raises: nothing catches it
                     /\ ask_response' = Some(Reply(500, None))
                     /\ ask_cache_errors' = ask_cache_errors \cup {"get_cached_response"}
                     /\ ask_pc' = "done"
                     /\ UNCHANGED cacheVars
                ELSE IF LiveRow(cache_key, now) /\ ~IsJsonText(query_cache[cache_key].response)
                THEN \* the hit is counted and committed, then json.loads raises
                     /\ query_cache' = [query_cache EXCEPT ![cache_key].hit_count = @ + 1]
                     /\ ask_response' = Some(Reply(500, None))
                     /\ ask_cache_errors' = ask_cache_errors \cup {"get_cached_response"}
                     /\ ask_pc' = "done"
                     /\ UNCHANGED <<embedding_cache, concept_graph_cache, now, last, puts,
                                    stored, ops>>
                ELSE /\ get_cached_response(ask_env.question, ask_env.course_id)
                     /\ ask_cache_errors' = ask_cache_errors
                     /\ IF last'.result # None
                        THEN /\ ask_response' =
                                    Some(Reply(200, Some([cached |-> TRUE,
                                                          body |-> Val(last'.result)])))
                             /\ ask_pc' = "done"
                        ELSE /\ ask_response' = ask_response
                             /\ ask_pc' = "lookup_done"
    /\ UNCHANGED <<ask_env, ask_result, chat_history_db>>

\* ... up to the end of `await orchestrator.process_question`
AskProcess ==
    /\ ask_pc = "lookup_done"
    /\ IF ask_env.pipeline.raised
       THEN \* except Exception: raise HTTPException(status_code=500)
            /\ ask_response' = Some(Reply(500, None))
            /\ ask_result' = ask_result
            /\ ask_pc' = "done"
       ELSE /\ ask_result' = Some(ask_env.pipeline.result)
            /\ ask_response' = ask_response
            /\ ask_pc' = "processed"
    /\ UNCHANGED <<cacheVars, ask_env, ask_cache_errors, chat_history_db>>

\* ... to the end: the response is cached, the exchange is recorded and the
\* reply is sent
AskStore ==
    /\ ask_pc = "processed"
    /\ ask_pc' = "done"
    /\ LET data == response_data(Val(ask_result))
       IN  IF ask_env.cache_service /\ ask_env.db_error_on_put
           THEN \* cache_response raises inside the try block
                /\ ask_response' = Some(Reply(500, None))
                /\ ask_cache_errors' = ask_cache_errors \cup {"cache_response"}
                /\ UNCHANGED <<cacheVars, chat_history_db>>
           ELSE /\ IF ask_env.cache_service
                   THEN cache_response(ask_env.question, data, ask_env.course_id, None)
                   ELSE UNCHANGED cacheVars
                /\ chat_history_db' = chat_history_db \o
                       <<[role |-> "user", content |-> ask_env.question],
                         [role |-> "assistant", answer |-> data.answer]>>
                /\ ask_response' = Some(Reply(200, Some([cached |-> FALSE, body |-> data])))
                /\ ask_cache_errors' = ask_cache_errors
    /\ UNCHANGED <<ask_env, ask_result>>

\* what process_question does for the request
PipelineRaises(r) == [raised |-> TRUE, result |-> r]
PipelineReturns(r) == [raised |-> FALSE, result |-> r]
PipelineResult ==
    [answer |-> <<"answer">>, sources |-> <<"source">>,
     misconception_warning |-> [detected |-> FALSE, issues |-> <<>>]]

\* a query_cache row for the question: live, expired, or live with a payload
\* that is no JSON
StoredRow(payload, expires_at) ==
    [response |-> payload, course_id |-> None, created_at |-> 0,
     expires_at |-> Some(expires_at), hit_count |-> 0]
AskTables ==
    LET key == generate_cache_key(<<"q">>, None)
    IN  {<<>>,
         Upsert(<<>>, key, StoredRow(JsonDumps(response_data(PipelineResult)), DefaultTtl)),
         Upsert(<<>>, key, StoredRow(JsonDumps(response_data(PipelineResult)), 0)),
         Upsert(<<>>, key, StoredRow(CorruptPayload, DefaultTtl))}

AskEnvs ==
    [question : {<<"q">>, <<" ">>}, course_id : {None}, cache_service : BOOLEAN,
     db_error_on_get : BOOLEAN, db_error_on_put : BOOLEAN,
     pipeline : {PipelineRaises(PipelineResult), PipelineReturns(PipelineResult)}]

AskInit ==
    /\ ask_pc = "start"
    /\ ask_env \in AskEnvs
    /\ ask_result = None
    /\ ask_response = None
    /\ ask_cache_errors = {}
    /\ chat_history_db = <<>>

AskIdle ==
    /\ ask_pc = "idle"
    /\ ask_env = <<>>
    /\ ask_result = None
    /\ ask_response = None
    /\ ask_cache_errors = {}
    /\ chat_history_db = <<>>

\* the cache as a request finds it: one row for the question, or none
AskCacheInit ==
    /\ query_cache \in AskTables
    /\ embedding_cache = <<>>
    /\ concept_graph_cache = <<>>
    /\ now \in {1, 2}
    /\ last = NoCall
    /\ puts = <<>>
    /\ stored = {}
    /\ ops = 0

----------------------------------------------------------------------------
(* VerificationAgent._create_excerpt (top-level tree)                        *)

RECURSIVE RFind(_, _)
\* str.rfind(ch): the 0-based index of the last occurrence, or -1
RFind(t, ch) ==
    IF t = <<>> THEN 0 - 1
    ELSE IF t[Len(t)] = ch THEN Len(t) - 1
    ELSE RFind(SubSeq(t, 1, Len(t) - 1), ch)

\* str.rsplit(" ", 1)[0]: what precedes the last space, or all of it
BeforeLastSpace(t) ==
    IF RFind(t, " ") < 0 THEN t ELSE SubSeq(t, 1, RFind(t, " "))

Ellipsis == <<".", ".", ".">>

\* a variant that cuts at any period of the truncated text
create_excerpt_any_period(text, max_length) ==
    IF Len(text) <= max_length THEN text
    ELSE LET truncated == SubSeq(text, 1, max_length)
             last_period == RFind(truncated, ".")
         IN  IF last_period >= 0
             THEN SubSeq(truncated, 1, last_period + 1)
             ELSE BeforeLastSpace(truncated) \o Ellipsis

\* _create_excerpt
create_excerpt(text, max_length) ==
    IF Len(text) <= max_length THEN text
    ELSE LET truncated == SubSeq(text, 1, max_length)
             last_period == RFind(truncated, ".")
         IN  IF last_period > max_length \div 2
             THEN SubSeq(truncated, 1, last_period + 1)
             ELSE BeforeLastSpace(truncated) \o Ellipsis

ExcerptCall ==
    /\ ex_pc = "start"
    /\ ex_out' = create_excerpt(ex_text, ex_max_length)
    /\ ex_pc' = "done"
    /\ UNCHANGED <<ex_text, ex_max_length>>

ExcerptChars == {"a", ".", " "}
ExcerptTexts == UNION {[1..n -> ExcerptChars] : n \in 0..MaxExcerptText}

ExcerptInit ==
    /\ ex_pc = "start"
    /\ ex_text \in ExcerptTexts
    /\ ex_max_length \in 1..MaxExcerptLimit
    /\ ex_out = <<>>

ExcerptIdle ==
    /\ ex_pc = "idle"
    /\ ex_text = <<>>
    /\ ex_max_length = 0
    /\ ex_out = <<>>

----------------------------------------------------------------------------
(* Concurrent requests: process_question is a coroutine; it is suspended at   *)
(* the await inside each stage, where the coroutines of other requests run.  *)
(* One step runs a request from one suspension to the next.                  *)

Requests == 1..NumRequests

\* a variant in which every request works on the context object of request 1
ContextOfShared(r) == 1

\* context = AgentContext(...): a local of the call, one object per request
ContextOf(r) == r

EmptyContext == [retrieved_chunks |-> None, structured_answer |-> None, sources |-> None]
NothingRead == [composition |-> None, verification |-> None]

\* the top-level tree runs the verification stage only if an option asks for it
VerificationRuns(e) == e.tree = "src" \/ e.include_sources \/ e.detect_misconceptions

\* process_question up to the await inside the retrieval stage
StartRequest(r) ==
    /\ st_pc[r] = "start"
    /\ st_ctx' = [st_ctx EXCEPT ![ContextOf(r)] = EmptyContext]
    /\ st_pc' = [st_pc EXCEPT ![r] = "retrieval"]
    /\ st_log' = [st_log EXCEPT ![r] = Append(@, <<"retrieval", "start">>)]
    /\ UNCHANGED <<st_env, st_read>>

\* the retrieval stage resumes, writes retrieved_chunks and returns; the
\* composition stage reads them and runs up to its await
FinishRetrieval(r) ==
    /\ st_pc[r] = "retrieval"
    /\ IF st_env[r].raises = "retrieval"
       THEN /\ st_pc' = [st_pc EXCEPT ![r] = "error"]
            /\ UNCHANGED <<st_ctx, st_read, st_log>>
       ELSE LET c == ContextOf(r)
                written == [st_ctx EXCEPT ![c].retrieved_chunks = Some(<<"chunks", r>>)]
            IN  /\ st_ctx' = written
                /\ st_read' = [st_read EXCEPT ![r].composition = written[c].retrieved_chunks]
                /\ st_pc' = [st_pc EXCEPT ![r] = "composition"]
                /\ st_log' = [st_log EXCEPT ![r] =
                                 @ \o << <<"retrieval", "finish">>, <<"composition", "start">> >>]
    /\ UNCHANGED st_env

\* the composition stage resumes, writes structured_answer and returns; the
\* verification stage reads it and runs up to its await, or the response is
\* returned
FinishComposition(r) ==
    /\ st_pc[r] = "composition"
    /\ IF st_env[r].raises = "composition"
       THEN /\ st_pc' = [st_pc EXCEPT ![r] = "error"]
            /\ UNCHANGED <<st_ctx, st_read, st_log>>
       ELSE LET c == ContextOf(r)
                written == [st_ctx EXCEPT ![c].structured_answer = Some(<<"answer", r>>)]
            IN  /\ st_ctx' = written
                /\ IF VerificationRuns(st_env[r])
                   THEN /\ st_read' = [st_read EXCEPT ![r].verification =
                                           Some([answer |-> written[c].structured_answer,
                                                 chunks |-> written[c].retrieved_chunks])]
                        /\ st_pc' = [st_pc EXCEPT ![r] = "verification"]
                        /\ st_log' = [st_log EXCEPT ![r] =
                               @ \o << <<"composition", "finish">>, <<"verification", "start">> >>]
                   ELSE /\ st_read' = st_read
                        /\ st_pc' = [st_pc EXCEPT ![r] = "done"]
                        /\ st_log' = [st_log EXCEPT ![r] = Append(@, <<"composition", "finish">>)]
    /\ UNCHANGED st_env

\* the verification stage resumes, writes sources and returns; the response
\* is built and returned
FinishVerification(r) ==
    /\ st_pc[r] = "verification"
    /\ IF st_env[r].raises = "verification"
       THEN /\ st_pc' = [st_pc EXCEPT ![r] = "error"]
            /\ UNCHANGED <<st_ctx, st_log>>
       ELSE /\ st_ctx' = [st_ctx EXCEPT ![ContextOf(r)].sources = Some(<<"sources", r>>)]
            /\ st_pc' = [st_pc EXCEPT ![r] = "done"]
            /\ st_log' = [st_log EXCEPT ![r] = Append(@, <<"verification", "finish">>)]
    /\ UNCHANGED <<st_env, st_read>>

\* the src tree absorbs the failures of retrieval and verification; the
\* top-level tree lets the embedding and the misconception call raise
StageEnvs ==
    [tree : {"src"}, raises : {"none", "composition"},
     include_sources : {TRUE}, detect_misconceptions : {TRUE}]
    \cup
    [tree : {"agents"}, raises : {"none", "retrieval", "composition", "verification"},
     include_sources : BOOLEAN, detect_misconceptions : BOOLEAN]

StageInit ==
    /\ st_env \in [Requests -> StageEnvs]
    /\ st_pc = [r \in Requests |-> "start"]
    /\ st_ctx = [r \in Requests |-> EmptyContext]
    /\ st_read = [r \in Requests |-> NothingRead]
    /\ st_log = [r \in Requests |-> <<>>]

StageIdle ==
    /\ st_env = <<>>
    /\ st_pc = <<>>
    /\ st_ctx = <<>>
    /\ st_read = <<>>
    /\ st_log = <<>>

----------------------------------------------------------------------------
(* VectorStore (top-level tree): lazy creation of the collection of a course. *)
(* Every caller runs on the one event loop; add_documents and count have no  *)
(* await, search is suspended once, at embed_text.                           *)

Calls == 1..NumCalls

\* client.get_or_create_collection(name): the collection of that name, made
\* when the server has none
get_or_create_collection(server) ==
    IF Len(server) > 0
    THEN [server |-> server, handle |-> 1, raised |-> FALSE]
    ELSE [server |-> <<0>>, handle |-> 1, raised |-> FALSE]

\* client.create_collection(name): raises when the name is taken
create_collection(server) ==
    IF Len(server) > 0
    THEN [server |-> server, handle |-> 0, raised |-> TRUE]
    ELSE [server |-> <<0>>, handle |-> 1, raised |-> FALSE]

\* a variant that creates the collection on every access
get_collection_always_create(held, server) ==
    LET made == create_collection(server)
    IN  [collections |-> IF made.raised THEN held ELSE Some(made.handle),
         server |-> made.server, handle |-> made.handle, raised |-> made.raised]

\* _get_collection(course_id)
get_collection(held, server) ==
    IF held = None
    THEN LET made == get_or_create_collection(server)
         IN  [collections |-> Some(made.handle), server |-> made.server,
              handle |-> made.handle, raised |-> made.raised]
    ELSE [collections |-> held, server |-> server, handle |-> Val(held), raised |-> FALSE]

\* add_documents, count, and search up to its await
StoreCall(c) ==
    /\ vs_pc[c] = "start"
    /\ LET got == get_collection(collections, vs_server)
           op == vs_env[c].op
       IN  IF got.raised
           THEN /\ collections' = got.collections
                /\ vs_server' = got.server
                /\ vs_pc' = [vs_pc EXCEPT ![c] = "done"]
                /\ vs_result' = [vs_result EXCEPT ![c] = "already_exists"]
                /\ UNCHANGED vs_handle
           ELSE /\ collections' = got.collections
                /\ vs_handle' = [vs_handle EXCEPT ![c] = Some(got.handle)]
                /\ vs_server' = IF op = "add_documents"
                                THEN [got.server EXCEPT ![got.handle] = @ + 1]
                                ELSE got.server
                /\ IF op = "search" /\ got.server[got.handle] > 0
                   THEN /\ vs_pc' = [vs_pc EXCEPT ![c] = "embedding"]
                        /\ UNCHANGED vs_result
                   ELSE /\ vs_pc' = [vs_pc EXCEPT ![c] = "done"]
                        /\ vs_result' = [vs_result EXCEPT ![c] = "ok"]
    /\ UNCHANGED vs_env

\* search after embed_text: collection.query on the handle it holds
StoreFinishSearch(c) ==
    /\ vs_pc[c] = "embedding"
    /\ vs_pc' = [vs_pc EXCEPT ![c] = "done"]
    /\ vs_result' = [vs_result EXCEPT ![c] =
                        IF vs_env[c].embed_raises THEN "embedding_error" ELSE "ok"]
    /\ UNCHANGED <<vs_env, collections, vs_server, vs_handle>>

StoreEnvs == [op : {"search", "add_documents", "count"}, embed_raises : BOOLEAN]

StoreInit ==
    /\ vs_env \in [Calls -> StoreEnvs]
    /\ vs_pc = [c \in Calls |-> "start"]
    /\ collections = None
    /\ vs_server = <<>>
    /\ vs_handle = [c \in Calls |-> None]
    /\ vs_result = [c \in Calls |-> "none"]

StoreIdle ==
    /\ vs_env = <<>>
    /\ vs_pc = <<>>
    /\ collections = None
    /\ vs_server = <<>>
    /\ vs_handle = <<>>
    /\ vs_result = <<>>

----------------------------------------------------------------------------
(* CacheService under concurrent calls. Every method awaits its statements   *)
(* one by one on the single connection self.db; aiosqlite runs the           *)
(* statements of a connection on one thread, in the order they were handed   *)
(* over, and the event loop resumes the waiting calls in the order their     *)
(* statements finished. All calls use the same query, course and text.       *)

CacheCalls == 1..NumCacheCalls

TheKey == generate_cache_key(<<"q">>, Some(<<"c">>))
PayloadOf(c) == <<"payload", c>>

\* INSERT OR IGNORE: the row already stored under the primary key stays
insert_or_ignore(rows, row) ==
    IF \E r \in rows : r.pk = row.pk THEN rows ELSE rows \cup {row}

\* INSERT OR REPLACE: the row already stored under the primary key is deleted
insert_or_replace(rows, row) ==
    {r \in rows : r.pk # row.pk} \cup {row}

\* the row each caching method inserts
InsertedRow(c) ==
    CASE cx_env[c].op = "cache_response" ->
            [pk |-> TheKey, response |-> JsonDumps(PayloadOf(c)),
             expires_at |-> cx_at[c] + EffectiveTtl(cx_env[c].ttl), hit_count |-> 0]
      [] cx_env[c].op = "cache_embedding" ->
            [pk |-> hash_text(<<"t">>), embedding |-> JsonDumps(PayloadOf(c))]
      [] cx_env[c].op = "cache_concept_graph" ->
            [pk |-> <<"c">>, graph_data |-> JsonDumps(PayloadOf(c)), updated_at |-> cx_at[c]]

TableOf(op) ==
    CASE op = "cache_response" -> "query_cache"
      [] op = "get_cached_response" -> "query_cache"
      [] op = "cache_embedding" -> "embedding_cache"
      [] op = "cache_concept_graph" -> "concept_graph_cache"

\* a call begins: it reads the clock and hands its first statement over
CacheCallStart(c) ==
    /\ cx_pc[c] = "start"
    /\ cx_at' = [cx_at EXCEPT ![c] = cx_now]
    /\ cx_now' = cx_now + 1
    /\ LET first == IF cx_env[c].op = "get_cached_response" THEN "select" ELSE "insert"
       IN  /\ cx_pc' = [cx_pc EXCEPT ![c] = first]
           /\ cx_queue' = Append(cx_queue, [call |-> c, sql |-> first])
    /\ UNCHANGED <<cx_env, cx_cursor, cx_result, cx_tables, cx_ready, cx_completed>>

\* the connection runs its oldest statement
ConnectionStep ==
    /\ cx_queue # <<>>
    /\ LET c == Head(cx_queue).call
           sql == Head(cx_queue).sql
           table == TableOf(cx_env[c].op)
       IN  /\ cx_tables' =
                 CASE sql = "insert" ->
                        [cx_tables EXCEPT ![table] = insert_or_replace(@, InsertedRow(c))]
                   [] sql = "update" ->
                        [cx_tables EXCEPT !["query_cache"] =
                            {IF r.pk = TheKey THEN [r EXCEPT !.hit_count = @ + 1] ELSE r : r \in @}]
                   [] OTHER -> cx_tables
           /\ cx_cursor' =
                 IF sql = "select"
                 THEN [cx_cursor EXCEPT ![c] =
                          {r.response : r \in {x \in cx_tables.query_cache :
                                                  x.pk = TheKey /\ x.expires_at > cx_at[c]}}]
                 ELSE cx_cursor
           /\ cx_ready' = Append(cx_ready, c)
    /\ cx_queue' = Tail(cx_queue)
    /\ UNCHANGED <<cx_env, cx_pc, cx_at, cx_result, cx_completed, cx_now>>

\* the event loop resumes the call that has waited longest: the caching
\* methods commit and return, get_cached_response fetches the row, counts the
\* hit, commits and returns the decoded response
CacheCallResume ==
    /\ cx_ready # <<>>
    /\ LET c == Head(cx_ready)
           at == cx_pc[c]
           next == CASE at = "insert" -> "commit"
                     [] at = "select" -> "fetch"
                     [] at = "fetch" -> IF cx_cursor[c] = None THEN "done" ELSE "update"
                     [] at = "update" -> "commit"
                     [] at = "commit" -> "done"
       IN  /\ cx_pc' = [cx_pc EXCEPT ![c] = next]
           /\ IF next = "done"
              THEN /\ cx_queue' = cx_queue
                   /\ cx_completed' = Append(cx_completed, c)
                   /\ cx_result' = [cx_result EXCEPT ![c] =
                          IF cx_env[c].op = "get_cached_response" /\ cx_cursor[c] # None
                          THEN Some(JsonLoads(Val(cx_cursor[c])))
                          ELSE None]
              ELSE /\ cx_queue' = Append(cx_queue, [call |-> c, sql |-> next])
                   /\ UNCHANGED <<cx_completed, cx_result>>
    /\ cx_ready' = Tail(cx_ready)
    /\ UNCHANGED <<cx_env, cx_at, cx_cursor, cx_tables, cx_now>>

CacheCallEnvs ==
    [op : {"cache_response"}, ttl : {None, Some(1)}]
    \cup
    [op : {"get_cached_response", "cache_embedding", "cache_concept_graph"}, ttl : {None}]

ConnInit ==
    /\ cx_env \in [CacheCalls -> CacheCallEnvs]
    /\ cx_pc = [c \in CacheCalls |-> "start"]
    /\ cx_at = [c \in CacheCalls |-> 0]
    /\ cx_cursor = [c \in CacheCalls |-> None]
    /\ cx_result = [c \in CacheCalls |-> None]
    /\ cx_tables = [query_cache |-> {}, embedding_cache |-> {}, concept_graph_cache |-> {}]
    /\ cx_queue = <<>>
    /\ cx_ready = <<>>
    /\ cx_completed = <<>>
    /\ cx_now = 0

ConnIdle ==
    /\ cx_env = <<>>
    /\ cx_pc = <<>>
    /\ cx_at = <<>>
    /\ cx_cursor = <<>>
    /\ cx_result = <<>>
    /\ cx_tables = <<>>
    /\ cx_queue = <<>>
    /\ cx_ready = <<>>
    /\ cx_completed = <<>>
    /\ cx_now = 0

----------------------------------------------------------------------------
(* Curriculum alignment (top-level tree): the retrieval stage sets it, the   *)
(* verification stage raises it. The search results range over every list    *)
(* of scores and pages, nearest first.                                       *)

\* score = 1 - distance, in percent; a cosine distance above 1 gives a
\* negative score
AlignScores == {0 - 20, 30, 60, 90}
AlignPages == {1, 2}

AlignResults ==
    {r \in UNION {[1..n -> [id : {0}, score : AlignScores,
                            document_id : {"doc"}, page : AlignPages]] :
                     n \in 0..MaxAlignChunks} :
        \A i \in 1..Len(r) - 1 : r[i].score >= r[i + 1].score}

\* ids as VectorStore.search gives them: distinct
NumberResults(r) == [i \in 1..Len(r) |-> [r[i] EXCEPT !.id = i - 1]]

\* RetrievalAgent.process: the filtered results and the initial alignment
AlignRetrieve ==
    /\ al_pc = "start"
    /\ LET filtered_results == filter_results(al_results)
       IN  al_ctx' = [al_ctx EXCEPT
                         !.retrieved_chunks = filtered_results,
                         !.curriculum_alignment = retrieval_alignment(filtered_results)]
    /\ al_pc' = "retrieved"
    /\ UNCHANGED <<al_results, al_include_sources>>

\* VerificationAgent.process: the sources and the updated alignment (the
\* composition stage in between leaves both alone)
AlignVerify ==
    /\ al_pc = "retrieved"
    /\ LET sources == IF al_include_sources
                      THEN extract_sources(al_ctx.retrieved_chunks) ELSE al_ctx.sources
       IN  al_ctx' = [al_ctx EXCEPT
                         !.sources = sources,
                         !.curriculum_alignment = update_alignment(@, sources)]
    /\ al_pc' = "verified"
    /\ UNCHANGED <<al_results, al_include_sources>>

AlignInit ==
    /\ al_pc = "start"
    /\ al_results \in {NumberResults(r) : r \in AlignResults}
    /\ al_include_sources \in BOOLEAN
    /\ al_ctx = [retrieved_chunks |-> <<>>, sources |-> <<>>,
                 curriculum_alignment |-> Ratio(0, 1)]

AlignIdle ==
    /\ al_pc = "idle"
    /\ al_results = <<>>
    /\ al_include_sources = FALSE
    /\ al_ctx = <<>>

----------------------------------------------------------------------------
(* DocumentProcessor._create_chunks (top-level tree), one page. A sentence  *)
(* is kept as its number of words and a chunk as the positions of the       *)
(* sentences joined in it: current_chunk is always the join of              *)
(* current_sentences.                                                       *)

\* len(" ".join(sentences[i] for i in chunk).split())
WordsIn(chunk, sentences) == Sum([k \in 1..Len(chunk) |-> sentences[chunk[k]]])

\* current_sentences[-3:] if len(current_sentences) >= 3 else current_sentences
OverlapSentences(current_sentences) ==
    IF Len(current_sentences) >= 3
    THEN SubSeq(current_sentences, Len(current_sentences) - 2, Len(current_sentences))
    ELSE current_sentences

RECURSIVE CreateLoop(_, _, _, _, _)
\* the body of `for sentence in sentences` from the i-th sentence on, and the
\* last chunk of the page
CreateLoop(sentences, i, current_sentences, chunks, cs) ==
    IF i > Len(sentences)
    THEN IF current_sentences # <<>> THEN Append(chunks, current_sentences) ELSE chunks
    ELSE IF WordsIn(Append(current_sentences, i), sentences) > cs
         THEN CreateLoop(sentences, i + 1, Append(OverlapSentences(current_sentences), i),
                         IF current_sentences # <<>>
                         THEN Append(chunks, current_sentences) ELSE chunks,
                         cs)
         ELSE CreateLoop(sentences, i + 1, Append(current_sentences, i), chunks, cs)

create_chunks(sentences, cs) == CreateLoop(sentences, 1, <<>>, <<>>, cs)

CreateChunksCall ==
    /\ wc_pc = "start"
    /\ wc_chunks' = create_chunks(wc_sentences, wc_chunk_size)
    /\ wc_pc' = "done"
    /\ UNCHANGED <<wc_sentences, wc_chunk_size>>

\* _parse_pdf keeps a page only if its text is not blank, so there is a sentence
PageSentences == UNION {[1..n -> 1..MaxSentenceWords] : n \in 1..MaxSentences}

WordInit ==
    /\ wc_pc = "start"
    /\ wc_sentences \in PageSentences
    /\ wc_chunk_size \in 1..MaxWordChunk
    /\ wc_chunks = <<>>

WordIdle ==
    /\ wc_pc = "idle"
    /\ wc_sentences = <<>>
    /\ wc_chunk_size = 1
    /\ wc_chunks = <<>>

----------------------------------------------------------------------------
(* _recursive_split, the branch that starts a new buffer with the overlap   *)
(* of the previous one: overlap = ...; current_chunk = overlap + piece       *)

SeedNewBuffer ==
    /\ sd_pc = "overflow"
    /\ sd_seed' = Overlap(sd_buffer, sd_overlap)
    /\ sd_next' = Overlap(sd_buffer, sd_overlap) \o sd_piece
    /\ sd_pc' = "seeded"
    /\ UNCHANGED <<sd_buffer, sd_piece, sd_overlap>>

\* the buffer holds pieces of the text, each followed by the separator
SeedBuffers == UNION {[1..n -> Chars] : n \in 0..MaxBuffer}
SeedPieces == {<<"a", " ">>, <<" ">>, <<"a", "a", " ">>}

SeedInit ==
    /\ sd_pc = "overflow"
    /\ sd_buffer \in SeedBuffers
    /\ sd_piece \in SeedPieces
    /\ sd_overlap \in 0..MaxOverlap
    /\ sd_seed = <<>>
    /\ sd_next = <<>>

SeedIdle ==
    /\ sd_pc = "idle"
    /\ sd_buffer = <<>>
    /\ sd_piece = <<>>
    /\ sd_overlap = 0
    /\ sd_seed = <<>>
    /\ sd_next = <<>>

----------------------------------------------------------------------------
(* ask_question beside delete_document (src/routes). Each request is        *)
(* suspended at its cache lookup, in its pipeline and at its cache write;    *)
(* the deletion is suspended after the vector store and after the eviction.  *)
(* All requests and the document belong to one course.                       *)

Askers == 1..NumAskers
TheCourse == <<"c">>

\* what the pipeline answers from the content of the course as it is
AnswerFrom(doc) ==
    [answer |-> IF doc THEN <<"from the document">> ELSE <<"without the document">>]

\* ask_question up to the end of get_cached_response
EvictLookup(r) ==
    /\ ev_pc[r] = "start"
    /\ get_cached_response(ev_env[r].question, Some(TheCourse))
    /\ IF last'.result # None
       THEN /\ ev_got' = [ev_got EXCEPT ![r] =
                             Some([response |-> Val(last'.result),
                                   after_eviction |-> ev_del = "done"])]
            /\ ev_pc' = [ev_pc EXCEPT ![r] = "done"]
       ELSE /\ ev_got' = ev_got
            /\ ev_pc' = [ev_pc EXCEPT ![r] = "lookup_done"]
    /\ UNCHANGED <<ev_env, ev_result, ev_doc, ev_del>>

\* orchestrator.process_question: retrieval reads the vector store
EvictProcess(r) ==
    /\ ev_pc[r] = "lookup_done"
    /\ ev_result' = [ev_result EXCEPT ![r] = Some(AnswerFrom(ev_doc))]
    /\ ev_pc' = [ev_pc EXCEPT ![r] = "processed"]
    /\ UNCHANGED <<cacheVars, ev_env, ev_got, ev_doc, ev_del>>

\* cache_service.cache_response(question, response_data, course_id)
EvictStore(r) ==
    /\ ev_pc[r] = "processed"
    /\ cache_response(ev_env[r].question, Val(ev_result[r]), Some(TheCourse), None)
    /\ ev_pc' = [ev_pc EXCEPT ![r] = "done"]
    /\ UNCHANGED <<ev_env, ev_result, ev_got, ev_doc, ev_del>>

\* delete_document: vector_store.delete_documents(document_id)
DeleteVectors ==
    /\ ev_del = "start"
    /\ ev_doc' = FALSE
    /\ ev_del' = "vectors_deleted"
    /\ UNCHANGED <<cacheVars, ev_env, ev_pc, ev_result, ev_got>>

\* delete_document: cache_service.clear_course_cache(doc["course_id"])
DeleteClearCache ==
    /\ ev_del = "vectors_deleted"
    /\ clear_course_cache(TheCourse)
    /\ ev_del' = "done"
    /\ UNCHANGED <<ev_env, ev_pc, ev_result, ev_got, ev_doc>>

EvictInit ==
    /\ ev_env \in [Askers -> [question : {<<"q">>, <<"p">>}]]
    /\ ev_pc = [r \in Askers |-> "start"]
    /\ ev_result = [r \in Askers |-> None]
    /\ ev_got = [r \in Askers |-> None]
    /\ ev_doc = TRUE
    /\ ev_del = "start"

EvictIdle ==
    /\ ev_env = <<>>
    /\ ev_pc = <<>>
    /\ ev_result = <<>>
    /\ ev_got = <<>>
    /\ ev_doc = FALSE
    /\ ev_del = "idle"

----------------------------------------------------------------------------
(* process_document_background: the concept graph of the course is read,    *)
(* merged with the concepts of the document and written back; the task is    *)
(* suspended at the read and at the write.                                   *)

Ingests == 1..NumIngests

\* get_cached_concept_graph(course_id): the decoded graph, or None
get_cached_concept_graph(course_id) ==
    IF course_id \in DOMAIN concept_graph_cache
    THEN Some(JsonLoads(concept_graph_cache[course_id].graph_data))
    ELSE None

\* existing_graph["concepts"].extend(c for c in concepts if c["name"] not in concept_names)
MergeConcepts(existing_graph, concepts) ==
    [existing_graph EXCEPT !.concepts =
        @ \o SelectSeq(concepts, LAMBDA c : ~InSeq(c, existing_graph.concepts))]

\* existing_graph = await cache_service.get_cached_concept_graph(course_id)
MergeRead(r) ==
    /\ mg_pc[r] = "start"
    /\ mg_existing' = [mg_existing EXCEPT ![r] = get_cached_concept_graph(TheCourse)]
    /\ mg_pc' = [mg_pc EXCEPT ![r] = "read"]
    /\ UNCHANGED <<cacheVars, mg_env>>

\* await cache_service.cache_concept_graph(course_id, merged or new graph)
MergeWrite(r) ==
    /\ mg_pc[r] = "read"
    /\ cache_concept_graph(TheCourse,
           IF mg_existing[r] # None
           THEN MergeConcepts(Val(mg_existing[r]), mg_env[r].concepts)
           ELSE [course_id |-> TheCourse, concepts |-> mg_env[r].concepts])
    /\ mg_pc' = [mg_pc EXCEPT ![r] = "done"]
    /\ UNCHANGED <<mg_env, mg_existing>>

\* the concept names extract_concepts returns for a document
ConceptLists == {<<"limit">>, <<"series">>, <<"limit", "series">>, <<"series", "norm">>}

MergeInit ==
    /\ mg_env \in [Ingests -> [concepts : ConceptLists]]
    /\ mg_pc = [r \in Ingests |-> "start"]
    /\ mg_existing = [r \in Ingests |-> None]

MergeIdle ==
    /\ mg_env = <<>>
    /\ mg_pc = <<>>
    /\ mg_existing = <<>>

----------------------------------------------------------------------------
(* What the specifications of one component leave unchanged and hold idle  *)
OthersCache == <<rerankVars, splitVars, pipeVars, askVars, excerptVars,
    dedupVars, stageVars, storeVars, connVars, alignVars, wordVars, seedVars,
    evictVars, mergeVars>>
IdleCache == RerankIdle /\ SplitIdle /\ PipeIdle /\ AskIdle /\ ExcerptIdle
    /\ DedupIdle /\ StageIdle /\ StoreIdle /\ ConnIdle /\ AlignIdle
    /\ WordIdle /\ SeedIdle /\ EvictIdle /\ MergeIdle
OthersRerank == <<cacheVars, splitVars, pipeVars, askVars, excerptVars,
    dedupVars, stageVars, storeVars, connVars, alignVars, wordVars, seedVars,
    evictVars, mergeVars>>
IdleRerank == CacheIdle /\ SplitIdle /\ PipeIdle /\ AskIdle /\ ExcerptIdle
    /\ DedupIdle /\ StageIdle /\ StoreIdle /\ ConnIdle /\ AlignIdle
    /\ WordIdle /\ SeedIdle /\ EvictIdle /\ MergeIdle
OthersSplit == <<cacheVars, rerankVars, pipeVars, askVars, excerptVars,
    dedupVars, stageVars, storeVars, connVars, alignVars, wordVars, seedVars,
    evictVars, mergeVars>>
IdleSplit == CacheIdle /\ RerankIdle /\ PipeIdle /\ AskIdle /\ ExcerptIdle
    /\ DedupIdle /\ StageIdle /\ StoreIdle /\ ConnIdle /\ AlignIdle
    /\ WordIdle /\ SeedIdle /\ EvictIdle /\ MergeIdle
OthersPipe == <<cacheVars, rerankVars, splitVars, askVars, excerptVars,
    dedupVars, stageVars, storeVars, connVars, alignVars, wordVars, seedVars,
    evictVars, mergeVars>>
IdlePipe == CacheIdle /\ RerankIdle /\ SplitIdle /\ AskIdle /\ ExcerptIdle
    /\ DedupIdle /\ StageIdle /\ StoreIdle /\ ConnIdle /\ AlignIdle
    /\ WordIdle /\ SeedIdle /\ EvictIdle /\ MergeIdle
OthersAsk == <<rerankVars, splitVars, pipeVars, excerptVars, dedupVars,
    stageVars, storeVars, connVars, alignVars, wordVars, seedVars, evictVars,
    mergeVars>>
IdleAsk == RerankIdle /\ SplitIdle /\ PipeIdle /\ ExcerptIdle /\ DedupIdle
    /\ StageIdle /\ StoreIdle /\ ConnIdle /\ AlignIdle /\ WordIdle /\ SeedIdle
    /\ EvictIdle /\ MergeIdle
OthersExcerpt == <<cacheVars, rerankVars, splitVars, pipeVars, askVars,
    dedupVars, stageVars, storeVars, connVars, alignVars, wordVars, seedVars,
    evictVars, mergeVars>>
IdleExcerpt == CacheIdle /\ RerankIdle /\ SplitIdle /\ PipeIdle /\ AskIdle
    /\ DedupIdle /\ StageIdle /\ StoreIdle /\ ConnIdle /\ AlignIdle
    /\ WordIdle /\ SeedIdle /\ EvictIdle /\ MergeIdle
OthersDedup == <<cacheVars, rerankVars, splitVars, pipeVars, askVars,
    excerptVars, stageVars, storeVars, connVars, alignVars, wordVars,
    seedVars, evictVars, mergeVars>>
IdleDedup == CacheIdle /\ RerankIdle /\ SplitIdle /\ PipeIdle /\ AskIdle
    /\ ExcerptIdle /\ StageIdle /\ StoreIdle /\ ConnIdle /\ AlignIdle
    /\ WordIdle /\ SeedIdle /\ EvictIdle /\ MergeIdle
OthersStages == <<cacheVars, rerankVars, splitVars, pipeVars, askVars,
    excerptVars, dedupVars, storeVars, connVars, alignVars, wordVars,
    seedVars, evictVars, mergeVars>>
IdleStages == CacheIdle /\ RerankIdle /\ SplitIdle /\ PipeIdle /\ AskIdle
    /\ ExcerptIdle /\ DedupIdle /\ StoreIdle /\ ConnIdle /\ AlignIdle
    /\ WordIdle /\ SeedIdle /\ EvictIdle /\ MergeIdle
OthersStore == <<cacheVars, rerankVars, splitVars, pipeVars, askVars,
    excerptVars, dedupVars, stageVars, connVars, alignVars, wordVars,
    seedVars, evictVars, mergeVars>>
IdleStore == CacheIdle /\ RerankIdle /\ SplitIdle /\ PipeIdle /\ AskIdle
    /\ ExcerptIdle /\ DedupIdle /\ StageIdle /\ ConnIdle /\ AlignIdle
    /\ WordIdle /\ SeedIdle /\ EvictIdle /\ MergeIdle
OthersConn == <<cacheVars, rerankVars, splitVars, pipeVars, askVars,
    excerptVars, dedupVars, stageVars, storeVars, alignVars, wordVars,
    seedVars, evictVars, mergeVars>>
IdleConn == CacheIdle /\ RerankIdle /\ SplitIdle /\ PipeIdle /\ AskIdle
    /\ ExcerptIdle /\ DedupIdle /\ StageIdle /\ StoreIdle /\ AlignIdle
    /\ WordIdle /\ SeedIdle /\ EvictIdle /\ MergeIdle
OthersAlign == <<cacheVars, rerankVars, splitVars, pipeVars, askVars,
    excerptVars, dedupVars, stageVars, storeVars, connVars, wordVars,
    seedVars, evictVars, mergeVars>>
IdleAlign == CacheIdle /\ RerankIdle /\ SplitIdle /\ PipeIdle /\ AskIdle
    /\ ExcerptIdle /\ DedupIdle /\ StageIdle /\ StoreIdle /\ ConnIdle
    /\ WordIdle /\ SeedIdle /\ EvictIdle /\ MergeIdle
OthersWords == <<cacheVars, rerankVars, splitVars, pipeVars, askVars,
    excerptVars, dedupVars, stageVars, storeVars, connVars, alignVars,
    seedVars, evictVars, mergeVars>>
IdleWords == CacheIdle /\ RerankIdle /\ SplitIdle /\ PipeIdle /\ AskIdle
    /\ ExcerptIdle /\ DedupIdle /\ StageIdle /\ StoreIdle /\ ConnIdle
    /\ AlignIdle /\ SeedIdle /\ EvictIdle /\ MergeIdle
OthersSeed == <<cacheVars, rerankVars, splitVars, pipeVars, askVars,
    excerptVars, dedupVars, stageVars, storeVars, connVars, alignVars,
    wordVars, evictVars, mergeVars>>
IdleSeed == CacheIdle /\ RerankIdle /\ SplitIdle /\ PipeIdle /\ AskIdle
    /\ ExcerptIdle /\ DedupIdle /\ StageIdle /\ StoreIdle /\ ConnIdle
    /\ AlignIdle /\ WordIdle /\ EvictIdle /\ MergeIdle
OthersEvict == <<rerankVars, splitVars, pipeVars, askVars, excerptVars,
    dedupVars, stageVars, storeVars, connVars, alignVars, wordVars, seedVars,
    mergeVars>>
IdleEvict == RerankIdle /\ SplitIdle /\ PipeIdle /\ AskIdle /\ ExcerptIdle
    /\ DedupIdle /\ StageIdle /\ StoreIdle /\ ConnIdle /\ AlignIdle
    /\ WordIdle /\ SeedIdle /\ MergeIdle
OthersMerge == <<rerankVars, splitVars, pipeVars, askVars, excerptVars,
    dedupVars, stageVars, storeVars, connVars, alignVars, wordVars, seedVars,
    evictVars>>
IdleMerge == RerankIdle /\ SplitIdle /\ PipeIdle /\ AskIdle /\ ExcerptIdle
    /\ DedupIdle /\ StageIdle /\ StoreIdle /\ ConnIdle /\ AlignIdle
    /\ WordIdle /\ SeedIdle /\ EvictIdle

----------------------------------------------------------------------------
(* Cache keys and course-scoped eviction: calls on two queries and two      *)
(* courses (and no course), all with the default ttl                        *)

Queries == {<<"q">>, <<"q", ":", "c">>}
CourseIds == {<<"c">>, <<"a", "l", "l">>}
OptCourseIds == {None} \cup {Some(c) : c \in CourseIds}
Responses == {"r1", "r2"}
Texts == {<<"t">>}
Embeddings == {<<1, 2>>}
Graphs == {"g1"}

KeysPut == UNCHANGED OthersCache /\ \E q \in Queries, r \in Responses, c \in OptCourseIds : cache_response(q, r, c, None)
KeysGet == UNCHANGED OthersCache /\ \E q \in Queries, c \in OptCourseIds : get_cached_response(q, c)
KeysClearCourse == UNCHANGED OthersCache /\ \E c \in CourseIds : clear_course_cache(c)
KeysEmbed == UNCHANGED OthersCache /\ \E t \in Texts, e \in Embeddings : cache_embedding(t, e)
KeysGraph == UNCHANGED OthersCache /\ \E c \in CourseIds, g \in Graphs : cache_concept_graph(c, g)

NextCacheKeys == KeysPut \/ KeysGet \/ KeysClearCourse \/ KeysEmbed \/ KeysGraph

InitCacheKeys == CacheInit /\ IdleCache

SpecCacheKeys == InitCacheKeys /\ [][NextCacheKeys]_vars

(* Expiry: calls on one query with every kind of ttl, the clock advancing   *)
(* and the expired rows swept                                               *)

Ttls == {None, Some(0), Some(1), Some(0 - 1)}
TtlCourseIds == {None, Some(<<"c">>)}

TtlPut == UNCHANGED OthersCache /\ \E r \in Responses, c \in TtlCourseIds, t \in Ttls : cache_response(<<"q">>, r, c, t)
TtlGet == UNCHANGED OthersCache /\ \E c \in TtlCourseIds : get_cached_response(<<"q">>, c)
TtlTick == UNCHANGED OthersCache /\ \E d \in {1, DefaultTtl} : Tick(d)
TtlClearCourse == UNCHANGED OthersCache /\ clear_course_cache(<<"c">>)
TtlClearExpired == UNCHANGED OthersCache /\ clear_expired

NextCacheTtl == TtlPut \/ TtlGet \/ TtlTick \/ TtlClearExpired \/ TtlClearCourse

InitCacheTtl == CacheInit /\ IdleCache

SpecCacheTtl == InitCacheTtl /\ [][NextCacheTtl]_vars

(* Rerank: one call of _rerank_chunks on each candidate list and each       *)
(* completion outcome                                                       *)
NextRerank == RerankCall /\ UNCHANGED OthersRerank

InitRerank == RerankInit /\ IdleRerank

SpecRerank == InitRerank /\ [][NextRerank]_vars

(* Chunker: one call of _recursive_split on each page text and each         *)
(* setting of the three size parameters                                     *)
NextSplit == SplitCall /\ UNCHANGED OthersSplit

InitSplit == SplitInit /\ IdleSplit

SpecSplit == InitSplit /\ [][NextSplit]_vars

(* POST /ask: one request, with the cache configured or not, holding a     *)
(* row for the question or not, and the database failing or not            *)
NextAsk ==
    \/ AskLookup /\ UNCHANGED OthersAsk
    \/ AskProcess /\ UNCHANGED OthersAsk
    \/ AskStore /\ UNCHANGED OthersAsk

InitAsk == AskCacheInit /\ AskInit /\ IdleAsk

SpecAsk == InitAsk /\ [][NextAsk]_vars

(* Excerpts: one call of _create_excerpt on each text and each max_length  *)
NextExcerpt == ExcerptCall /\ UNCHANGED OthersExcerpt

InitExcerpt == ExcerptInit /\ IdleExcerpt

SpecExcerpt == InitExcerpt /\ [][NextExcerpt]_vars

(* Deduplication: _deduplicate_chunks applied once and a second time to   *)
(* each list of chunks                                                     *)
NextDedup ==
    \/ DedupCall /\ UNCHANGED OthersDedup
    \/ DedupAgain /\ UNCHANGED OthersDedup

InitDedup == DedupInit /\ IdleDedup

SpecDedup == InitDedup /\ [][NextDedup]_vars

(* Concurrent requests: NumRequests calls of process_question, interleaved *)
(* at their suspension points                                              *)
NextStages ==
    \/ \E r \in Requests : StartRequest(r) /\ UNCHANGED OthersStages
    \/ \E r \in Requests : FinishRetrieval(r) /\ UNCHANGED OthersStages
    \/ \E r \in Requests : FinishComposition(r) /\ UNCHANGED OthersStages
    \/ \E r \in Requests : FinishVerification(r) /\ UNCHANGED OthersStages

InitStages == StageInit /\ IdleStages

SpecStages == InitStages /\ [][NextStages]_vars

(* VectorStore: NumCalls calls that first access the same new course       *)
NextStore ==
    \/ \E c \in Calls : StoreCall(c) /\ UNCHANGED OthersStore
    \/ \E c \in Calls : StoreFinishSearch(c) /\ UNCHANGED OthersStore

InitStore == StoreInit /\ IdleStore

SpecStore == InitStore /\ [][NextStore]_vars

(* CacheService: NumCacheCalls concurrent calls on the same keys           *)
NextConn ==
    \/ \E c \in CacheCalls : CacheCallStart(c) /\ UNCHANGED OthersConn
    \/ ConnectionStep /\ UNCHANGED OthersConn
    \/ CacheCallResume /\ UNCHANGED OthersConn

InitConn == ConnInit /\ IdleConn

SpecConn == InitConn /\ [][NextConn]_vars

(* Curriculum alignment: one request over every list of search results    *)
NextAlign ==
    \/ AlignRetrieve /\ UNCHANGED OthersAlign
    \/ AlignVerify /\ UNCHANGED OthersAlign

InitAlign == AlignInit /\ IdleAlign

SpecAlign == InitAlign /\ [][NextAlign]_vars

(* Word chunker: one call of _create_chunks on each page and chunk_size    *)
NextWords == CreateChunksCall /\ UNCHANGED OthersWords

InitWords == WordInit /\ IdleWords

SpecWords == InitWords /\ [][NextWords]_vars

(* Overlap seed: the new-buffer branch on every buffer, piece and overlap  *)
NextSeed == SeedNewBuffer /\ UNCHANGED OthersSeed

InitSeed == SeedInit /\ IdleSeed

SpecSeed == InitSeed /\ [][NextSeed]_vars

(* Eviction: NumAskers requests of one course beside the deletion of its  *)
(* document                                                                *)
NextEvict ==
    \/ \E r \in Askers : EvictLookup(r) /\ UNCHANGED OthersEvict
    \/ \E r \in Askers : EvictProcess(r) /\ UNCHANGED OthersEvict
    \/ \E r \in Askers : EvictStore(r) /\ UNCHANGED OthersEvict
    \/ DeleteVectors /\ UNCHANGED OthersEvict
    \/ DeleteClearCache /\ UNCHANGED OthersEvict

InitEvict == CacheInit /\ EvictInit /\ IdleEvict

SpecEvict == InitEvict /\ [][NextEvict]_vars

(* Concept graph: NumIngests ingestion tasks of one course                *)
NextMerge ==
    \/ \E r \in Ingests : MergeRead(r) /\ UNCHANGED OthersMerge
    \/ \E r \in Ingests : MergeWrite(r) /\ UNCHANGED OthersMerge

InitMerge == CacheInit /\ MergeInit /\ IdleMerge

SpecMerge == InitMerge /\ [][NextMerge]_vars

(* Question pipeline: one request served by either tree                     *)
NextPipe ==
    \/ RetrieveSrc /\ UNCHANGED OthersPipe
    \/ ComposeSrc /\ UNCHANGED OthersPipe
    \/ VerifySrc /\ UNCHANGED OthersPipe
    \/ RetrieveAgents /\ UNCHANGED OthersPipe
    \/ ComposeAgents /\ UNCHANGED OthersPipe
    \/ VerifyAgents /\ UNCHANGED OthersPipe

InitPipe == PipeInit /\ IdlePipe

SpecPipe == InitPipe /\ [][NextPipe]_vars

----------------------------------------------------------------------------
(* C1: a response returned by get_cached_response(q2, c2) was stored by a    *)
(* cache_response call with the same query and the same course id           *)
C1_CacheIsolation ==
    (last.op = "get_cached_response" /\ last.result # None)
        => <<last.query, last.course_id, Val(last.result)>> \in stored

(* C2: a get_cached_response following a cache_response(q, v, c, ttl) on    *)
(* the same key, with no write or eviction in between, returns v before ttl *)
(* (24h when omitted) has elapsed and not-found after it has elapsed        *)
C2_TtlExpiry ==
    LET k == generate_cache_key(last.query, last.course_id)
    IN  (/\ last.op = "get_cached_response"
         /\ k \in DOMAIN puts
         /\ puts[k].query = last.query
         /\ puts[k].course_id = last.course_id)
        => LET ttl == IF puts[k].ttl = None THEN DefaultTtl ELSE Val(puts[k].ttl)
               expiry == puts[k].at + ttl
           IN  /\ last.at < expiry => last.result = Some(puts[k].response)
               /\ last.at > expiry => last.result = None

(* C3: clear_course_cache(c) deletes exactly the query-cache rows and the   *)
(* graph row tagged c; every other query-cache and graph row and every      *)
(* embedding row is unchanged                                               *)
C3_CourseEvictionExact ==
    [][(last'.n # last.n /\ last'.op = "clear_course_cache") =>
        LET c == last'.course_id
        IN  /\ DOMAIN query_cache' =
                   {k \in DOMAIN query_cache : query_cache[k].course_id # c}
            /\ \A k \in DOMAIN query_cache' : query_cache'[k] = query_cache[k]
            /\ DOMAIN concept_graph_cache' = DOMAIN concept_graph_cache \ {Val(c)}
            /\ \A g \in DOMAIN concept_graph_cache' :
                   concept_graph_cache'[g] = concept_graph_cache[g]
            /\ embedding_cache' = embedding_cache]_vars

C3_Witness ==
    /\ last.op = "clear_course_cache"
    /\ last.removed >= 1
    /\ \E k \in DOMAIN query_cache : query_cache[k].course_id # last.course_id
    /\ embedding_cache # <<>>

(* C4: _rerank_chunks returns a permutation of its input: every input chunk *)
(* appears exactly once in the output, whatever the completion call does    *)
C4_RerankPermutation ==
    rr_pc = "done" =>
        /\ Len(rr_out) = Len(rr_chunks)
        /\ \A i \in 1..Len(rr_chunks) :
               Cardinality({j \in 1..Len(rr_out) : rr_out[j] = rr_chunks[i]}) = 1

(* C5: every chunk _recursive_split returns is at most chunk_size long      *)
C5_ChunkSizeBound ==
    sp_pc = "done" => \A i \in 1..Len(sp_chunks) : Len(sp_chunks[i]) <= chunk_size

RECURSIVE Concat(_)
Concat(seqs) == IF seqs = <<>> THEN <<>> ELSE Head(seqs) \o Concat(Tail(seqs))

NonWhitespace(s) == SelectSeq(s, LAMBDA ch : ~IsSpace(ch))

RECURSIVE IsSubsequence(_, _)
IsSubsequence(a, b) ==
    IF a = <<>> THEN TRUE
    ELSE IF b = <<>> THEN FALSE
    ELSE IF Head(a) = Head(b) THEN IsSubsequence(Tail(a), Tail(b))
    ELSE IsSubsequence(a, Tail(b))

\* the non-whitespace characters of s occur, in order, in the chunks taken in order
Covers(s, chunks) == IsSubsequence(NonWhitespace(s), NonWhitespace(Concat(chunks)))

----------------------------------------------------------------------------
(* C7: composer fallback on a completion text that is no JSON               *)

\* the composition stage has run and json.loads rejected the text it was given
ComposeFellBack ==
    /\ ctx.structured_answer # None
    /\ ~env.compose.raised
    /\ ~IsJson(IF impl = "src" THEN StripFences(env.compose.text) ELSE env.compose.text)

IsContent(token) == ~IsSpace(token) /\ token \notin {"<fence>json", "<fence>"}

----------------------------------------------------------------------------
(* C8: hard failures of composition and of the answer check                 *)

ComposeFailed == "compose" \in called /\ env.compose.raised
VerifyFailed == "verify" \in called /\ env.verify.raised

----------------------------------------------------------------------------
(* C9: a failed embedding call during retrieval                             *)

\* the embedding call was made for some query of the request and raised
EmbedFailed ==
    /\ "embed" \in called
    /\ \E k \in 1..(IF impl = "src" THEN Len(ctx.queries_used) ELSE 1) : env.embed_raises[k]

\* C9: if embedding generation fails for a query during retrieval and no
\* embedding of that text is cached, the request fails with an error and
\* does not go on to composition; if one is cached, retrieval goes on without
\* calling the embedding capability.
C9_EmbeddingFailureIsRetrievalError ==
    /\ (EmbedFailed /\ ~env.cached) => pc = "error" /\ error = Some("embed")
    /\ (pc # "start" /\ env.cached) => "embed" \notin called

----------------------------------------------------------------------------
(* C10: failures of the auxiliary completion calls                          *)

ExpandFailed == "expand" \in called /\ env.expand.raised
RerankFailed == "rerank" \in called /\ (env.rerank.raised \/ ~RankingParses(env.rerank.fields))
DetectFailed == "detect" \in called /\ (env.detect.raised \/ ~env.detect.parsed)
ScoreFailed == "score" \in called /\ (env.score.raised \/ ~env.score.parsed)

\* C10: a raised error or a malformed reply of the completion call used for
\* query expansion, reranking, misconception detection or source scoring
\* never makes process_question fail; the step falls back to the original
\* query only, the pre-rerank order, an empty misconception list, or default
\* source scores.
C10_StageLocalFailuresAbsorbed ==
    /\ error \notin {Some("expand"), Some("rerank"), Some("detect"), Some("score")}
    /\ ExpandFailed => ctx.queries_used = <<ctx.question>>
    /\ RerankFailed => ctx.retrieved_chunks = Prefix(ctx.unique_chunks, rerank_top_k)
    /\ DetectFailed => ctx.misconceptions = <<>>
    /\ ScoreFailed => \A i \in 1..Len(ctx.sources) : ctx.sources[i].reliability_score = 70

----------------------------------------------------------------------------
(* C11: cache failures and a missing cache service in ask_question         *)

\* C11: if get_cached_response or cache_response fails, the question is
\* still answered by the pipeline and the request returns success; with no
\* cache service configured the request returns the pipeline's answer.
C11_CacheFailuresNotFatal ==
    (/\ ask_pc = "done"
     /\ Strip(ask_env.question) # <<>>
     /\ ~ask_env.pipeline.raised
     /\ (ask_cache_errors # {} \/ ~ask_env.cache_service))
        => /\ ask_response # None
           /\ Val(ask_response).status = 200
           /\ Val(Val(ask_response).data).body = response_data(ask_env.pipeline.result)

----------------------------------------------------------------------------
(* C12: where _create_excerpt cuts a text longer than max_length            *)

\* the 0-based indices of the periods among the first max_length characters
PeriodsWithinLimit ==
    {i \in 0..(ex_max_length - 1) : i < Len(ex_text) /\ ex_text[i + 1] = "."}
SpacesWithinLimit ==
    {i \in 0..(ex_max_length - 1) : i < Len(ex_text) /\ ex_text[i + 1] = " "}
Largest(S) == CHOOSE i \in S : \A j \in S : j <= i
Truncated == ex_pc = "done" /\ Len(ex_text) > ex_max_length

\* the cut at the last word boundary, with the ellipsis appended
WordBoundaryCut ==
    (IF SpacesWithinLimit = {} THEN SubSeq(ex_text, 1, ex_max_length)
     ELSE SubSeq(ex_text, 1, Largest(SpacesWithinLimit))) \o Ellipsis

\* C12 as stated: for a text longer than max_length whose first max_length
\* characters contain a period, the excerpt is the text up to and including
\* the last such period; only when they contain no period is the text cut at
\* the last word boundary and an ellipsis appended.
C12_CutsAtAnyPeriod ==
    Truncated =>
        IF PeriodsWithinLimit # {}
        THEN ex_out = SubSeq(ex_text, 1, Largest(PeriodsWithinLimit) + 1)
        ELSE ex_out = WordBoundaryCut

\* C12, amended: for a text longer than max_length, the excerpt is the text
\* up to and including the last period among its first max_length characters
\* when that period lies at an index greater than max_length // 2 (beyond
\* index 75 for the default 150); otherwise, whether there is an earlier
\* period or none, the first max_length characters are cut at their last
\* space (or not at all when they hold no space) and an ellipsis is appended.
C12_CutsAtLatePeriod ==
    Truncated =>
        IF PeriodsWithinLimit # {} /\ Largest(PeriodsWithinLimit) > ex_max_length \div 2
        THEN ex_out = SubSeq(ex_text, 1, Largest(PeriodsWithinLimit) + 1)
        ELSE ex_out = WordBoundaryCut

\* a truncated text whose only periods within the limit lie in its first half
C12_Witness ==
    /\ Truncated
    /\ PeriodsWithinLimit # {}
    /\ Largest(PeriodsWithinLimit) <= ex_max_length \div 2
    /\ Largest(PeriodsWithinLimit) > 0

----------------------------------------------------------------------------
(* C13: the length of an excerpt                                            *)

\* C13: the excerpt returned by _create_excerpt, counting any appended
\* ellipsis, is at most max_length (150) characters long, and a text of
\* length <= max_length is returned unchanged.
C13_ExcerptLengthBound ==
    ex_pc = "done" =>
        /\ Len(ex_out) <= ex_max_length
        /\ Len(ex_text) <= ex_max_length => ex_out = ex_text

----------------------------------------------------------------------------
(* C14: the score threshold of the top-level RetrievalAgent and its fallback *)

\* the retrieval stage of the top-level tree has written its output
RetrievedAgents == impl = "agents" /\ pc # "start" /\ error # Some("embed")

\* the results R of VectorStore.search for the request, in index order
SearchedR == IF env.indexed = 0 THEN <<>> ELSE SearchResults(env)

\* C14: retrieved_chunks is exactly the results of R with score >= 0.5, in
\* their order in R, when there is one; otherwise it is the first min(3, |R|)
\* results of R; so it is empty only when R is empty.
C14_ThresholdWithFallback ==
    RetrievedAgents =>
        LET R == SearchedR
            passing == {i \in 1..Len(R) : R[i].score >= 50}
            chunks == ctx.retrieved_chunks
        IN  /\ passing # {} =>
                /\ Len(chunks) = Cardinality(passing)
                /\ \A k \in 1..Len(chunks) :
                       \E i \in passing :
                           /\ chunks[k] = R[i]
                           /\ Cardinality({j \in passing : j < i}) = k - 1
            /\ passing = {} =>
                /\ Len(chunks) = Min(3, Len(R))
                /\ \A k \in 1..Len(chunks) : chunks[k] = R[k]
            /\ chunks = <<>> <=> R = <<>>

\* no result reached the threshold and the top 3 were kept
C14_Witness ==
    /\ RetrievedAgents
    /\ Len(SearchedR) > 3
    /\ \A i \in 1..Len(SearchedR) : SearchedR[i].score < 50
    /\ Len(ctx.retrieved_chunks) = 3

----------------------------------------------------------------------------
(* C15: the response of the top-level tree when no course material was found *)

RespondedAgents == impl = "agents" /\ pc = "done" /\ returned # None

\* C15: for a course with zero indexed chunks process_question returns
\* has_course_material = false, no sources and confidence <= 0.85; for every
\* request has_course_material is true exactly when retrieved_chunks is
\* non-empty, and the no-material confidence is the composed confidence times
\* 0.8, capped at 0.85.
C15_NoMaterialResponse ==
    RespondedAgents =>
        LET r == Val(returned)
        IN  /\ env.indexed = 0 =>
                /\ r.has_course_material = FALSE
                /\ r.sources = <<>>
                /\ r.confidence <= 85
            /\ r.has_course_material <=> ctx.retrieved_chunks # <<>>
            /\ ctx.retrieved_chunks = <<>> =>
                IF 4 * ctx.confidence <= 5 * 85
                THEN 5 * r.confidence = 4 * ctx.confidence
                ELSE r.confidence = 85

\* a request against a course with nothing indexed was answered
C15_Witness ==
    /\ RespondedAgents
    /\ env.indexed = 0
    /\ ctx.confidence > 0
    /\ Val(returned).confidence < ctx.confidence

----------------------------------------------------------------------------
(* C16: _deduplicate_chunks                                                 *)

\* the positions of dd_chunks that hold the first chunk of their identity
FirstOccurrences ==
    {i \in 1..Len(dd_chunks) :
        \A j \in 1..(i - 1) : ChunkIdentity(dd_chunks[j]) # ChunkIdentity(dd_chunks[i])}

\* C16: deduplication keeps exactly the first occurrence of each chunk
\* identity (chunk_id, else id), in order of first appearance; so
\* Dedup(Dedup(xs)) = Dedup(xs), len(Dedup(xs)) <= len(xs), and no two output
\* chunks share an identity.
C16_DedupFirstOccurrence ==
    /\ dd_pc \in {"once", "twice"} =>
        /\ Len(dd_unique) = Cardinality(FirstOccurrences)
        /\ \A k \in 1..Len(dd_unique) :
               \E i \in FirstOccurrences :
                   /\ dd_unique[k] = dd_chunks[i]
                   /\ Cardinality({j \in FirstOccurrences : j < i}) = k - 1
        /\ Len(dd_unique) <= Len(dd_chunks)
        /\ \A k, l \in 1..Len(dd_unique) :
               k # l => ChunkIdentity(dd_unique[k]) # ChunkIdentity(dd_unique[l])
    /\ dd_pc = "twice" => dd_again = dd_unique

\* a list in which a later chunk repeating an identity, with other content,
\* was dropped, and deduplication was applied twice
C16_Witness ==
    /\ dd_pc = "twice"
    /\ Len(dd_unique) >= 2
    /\ \E i, j \in 1..Len(dd_chunks) :
           /\ i < j
           /\ ChunkIdentity(dd_chunks[i]) = ChunkIdentity(dd_chunks[j])
           /\ dd_chunks[i] # dd_chunks[j]

----------------------------------------------------------------------------
(* C17: the order of the stages of one request                              *)

\* the position of an event in the log of request r, 0 if it has not happened
At(r, stage, event) ==
    IF \E i \in 1..Len(st_log[r]) : st_log[r][i] = <<stage, event>>
    THEN CHOOSE i \in 1..Len(st_log[r]) : st_log[r][i] = <<stage, event>>
    ELSE 0

\* C17: in every execution of process_question retrieval finishes before
\* composition starts and composition finishes before verification starts,
\* and a stage starts only after the previous stage of the same request has
\* written its output to the context, whatever the other requests do in
\* between.
C17_StageOrdering ==
    \A r \in Requests :
        /\ At(r, "composition", "start") > 0 =>
            /\ At(r, "retrieval", "start") > 0
            /\ At(r, "retrieval", "start") < At(r, "retrieval", "finish")
            /\ At(r, "retrieval", "finish") < At(r, "composition", "start")
            /\ st_read[r].composition = Some(<<"chunks", r>>)
        /\ At(r, "verification", "start") > 0 =>
            /\ At(r, "composition", "start") > 0
            /\ At(r, "composition", "start") < At(r, "composition", "finish")
            /\ At(r, "composition", "finish") < At(r, "verification", "start")
            /\ st_read[r].verification =
                   Some([answer |-> Some(<<"answer", r>>), chunks |-> Some(<<"chunks", r>>)])
        /\ st_pc[r] = "done" =>
            /\ At(r, "composition", "finish") > 0
            /\ VerificationRuns(st_env[r]) => At(r, "verification", "finish") > 0
        /\ \A i, j \in 1..Len(st_log[r]) : i # j => st_log[r][i] # st_log[r][j]

\* two requests are suspended in different stages at the same time, the one
\* that started later being further on
C17_Witness ==
    /\ st_pc[1] = "composition"
    /\ st_pc[2] = "verification"
    /\ st_read[1].composition # None
    /\ st_read[2].verification # None

----------------------------------------------------------------------------
(* C18: lazy creation of the collection of a course                         *)

Accessed == {c \in Calls : vs_pc[c] # "start"}
AddsDone == {c \in Accessed : vs_env[c].op = "add_documents" /\ vs_handle[c] # None}

\* C18: under every interleaving of search, add_documents and count calls
\* that first access the same new course, once a call has accessed it the
\* server holds exactly one collection for it, VectorStore.collections holds
\* one handle to it, every call works on that handle (so every added chunk
\* lands in that collection), and no call fails because the collection
\* exists.
C18_OneCollection ==
    Accessed # {} =>
        /\ Len(vs_server) = 1
        /\ collections = Some(1)
        /\ \A c \in Accessed : vs_handle[c] = collections /\ vs_result[c] # "already_exists"
        /\ vs_server[1] = Cardinality(AddsDone)

\* a search is suspended at its embedding while an add_documents and a count
\* have gone through the same collection
C18_Witness ==
    /\ vs_pc[1] = "embedding"
    /\ vs_env[2].op = "add_documents" /\ vs_result[2] = "ok"
    /\ vs_env[3].op = "count" /\ vs_result[3] = "ok"
    /\ vs_handle[1] = vs_handle[3]

----------------------------------------------------------------------------
(* C19: upsert, last write wins                                             *)

Quiescent == \A c \in CacheCalls : cx_pc[c] = "done"

\* the calls of one method, in the order they returned
CompletedOf(op) == SelectSeq(cx_completed, LAMBDA c : cx_env[c].op = op)

LastOf(op) == CompletedOf(op)[Len(CompletedOf(op))]

\* C19: once the interleaved calls on one key have returned, each table holds
\* exactly one row for the key if a caching call was made on it, and that row
\* carries the payload (and, for cache_response, the expiry) of the caching
\* call that returned last; a get_cached_response running among them returns
\* not-found or the whole payload of one of the cache_response calls; the
\* rows of embedding_cache and concept_graph_cache carry no expiry.
C19_LastWriteWins ==
    /\ \A t \in DOMAIN cx_tables : Cardinality(cx_tables[t]) <= 1
    /\ \A c \in CacheCalls :
          cx_result[c] # None =>
              \E p \in CacheCalls :
                  cx_env[p].op = "cache_response" /\ cx_result[c] = Some(PayloadOf(p))
    /\ \A t \in {"embedding_cache", "concept_graph_cache"} :
          \A r \in cx_tables[t] : "expires_at" \notin DOMAIN r
    /\ Quiescent =>
          \A op \in {"cache_response", "cache_embedding", "cache_concept_graph"} :
              IF CompletedOf(op) = <<>>
              THEN cx_tables[TableOf(op)] = {}
              ELSE \E r \in cx_tables[TableOf(op)] :
                      /\ cx_tables[TableOf(op)] = {r}
                      /\ \A f \in DOMAIN r \ {"hit_count"} : r[f] = InsertedRow(LastOf(op))[f]

\* a get_cached_response began after one cache_response and before another
\* with a different ttl, returned after both, and returned the payload of the
\* first
C19_Witness ==
    /\ Quiescent
    /\ cx_env[1].op = "cache_response" /\ cx_env[2].op = "cache_response"
    /\ cx_env[1].ttl # cx_env[2].ttl
    /\ cx_env[3].op = "get_cached_response" /\ cx_result[3] = Some(PayloadOf(1))
    /\ cx_completed = <<1, 2, 3>>
    /\ cx_at[3] < cx_at[2]

----------------------------------------------------------------------------
(* C20: the shape of the source list                                        *)

\* the (document, page) each source of the finished request stands for; a
\* source of the top-level tree names its chunk, which names the document
SourceKeys ==
    [i \in 1..Len(ctx.sources) |->
        IF impl = "src"
        THEN <<ctx.sources[i].document_id, ctx.sources[i].page>>
        ELSE LET chunk == ctx.retrieved_chunks[
                              CHOOSE j \in 1..Len(ctx.retrieved_chunks) :
                                  ctx.retrieved_chunks[j].id = ctx.sources[i].chunk_id]
             IN  <<chunk.document_id, chunk.page>>]

SourceRanks ==
    [i \in 1..Len(ctx.sources) |->
        IF impl = "src" THEN ctx.sources[i].reliability_score ELSE ctx.sources[i].confidence]

\* C20: the sources the verification stage produces hold at most one entry
\* for a (document_id, page) pair, are in non-increasing order of
\* confidence / reliability, and are five at most.
C20_SourceListShape ==
    pc = "done" =>
        /\ \A i, j \in 1..Len(ctx.sources) : i # j => SourceKeys[i] # SourceKeys[j]
        /\ \A i \in 1..Len(ctx.sources) - 1 : SourceRanks[i] >= SourceRanks[i + 1]
        /\ Len(ctx.sources) <= 5

----------------------------------------------------------------------------
(* C21: curriculum alignment through the pipeline                           *)

RatioLeq(a, b) == a.sum * b.n <= b.sum * a.n
RatioEq(a, b) == a.sum * b.n = b.sum * a.n

\* the average score of the retrieved chunks, 0 when there are none
RetrievedAverage ==
    IF al_ctx.retrieved_chunks = <<>> THEN Ratio(0, 1)
    ELSE Ratio(Sum([i \in 1..Len(al_ctx.retrieved_chunks) |-> al_ctx.retrieved_chunks[i].score]),
               Len(al_ctx.retrieved_chunks))

SourceMean ==
    Ratio(Sum([i \in 1..Len(al_ctx.sources) |-> al_ctx.sources[i].confidence]),
          Len(al_ctx.sources))

\* C21: the retrieval stage sets the alignment to the average score of the
\* retrieved chunks; after the verification stage the alignment is not below
\* that value, it is the larger of that value and the mean confidence of the
\* sources when there are sources, and it is that value when there are none.
C21_AlignmentMonotone ==
    /\ al_pc = "retrieved" => RatioEq(al_ctx.curriculum_alignment, RetrievedAverage)
    /\ al_pc = "verified" =>
          /\ RatioLeq(RetrievedAverage, al_ctx.curriculum_alignment)
          /\ al_ctx.sources # <<>> =>
                /\ RatioLeq(SourceMean, al_ctx.curriculum_alignment)
                /\ \/ RatioEq(al_ctx.curriculum_alignment, SourceMean)
                   \/ RatioEq(al_ctx.curriculum_alignment, RetrievedAverage)
          /\ al_ctx.sources = <<>> =>
                RatioEq(al_ctx.curriculum_alignment, RetrievedAverage)

\* verification ran on sources whose mean confidence is below the retrieval
\* average, so the maximum keeps the retrieval value
C21_Witness ==
    /\ al_pc = "verified"
    /\ al_ctx.sources # <<>>
    /\ ~RatioLeq(RetrievedAverage, SourceMean)

----------------------------------------------------------------------------
(* C22: the minimum chunk size                                              *)

\* C22: every chunk _recursive_split returns, and every chunk _chunk_document
\* emits for the page, is at least min_chunk_size long.
C22_ChunkMinimumSize ==
    sp_pc = "done" =>
        /\ \A i \in 1..Len(sp_chunks) : Len(sp_chunks[i]) >= min_chunk_size
        /\ LET emitted == chunk_document(sp_chunks, min_chunk_size)
           IN  \A i \in 1..Len(emitted) : Len(emitted[i]) >= min_chunk_size

----------------------------------------------------------------------------
(* C23: the word bound of the ingestion chunker                             *)

\* C23: every chunk _create_chunks makes of a page holds at most chunk_size
\* words, the chunks that begin with carried-over sentences included.
C23_WordChunkBound ==
    wc_pc = "done" =>
        \A k \in 1..Len(wc_chunks) : WordsIn(wc_chunks[k], wc_sentences) <= wc_chunk_size

----------------------------------------------------------------------------
(* C24: a cache hit short-circuits the pipeline                              *)

AskKey == generate_cache_key(ask_env.question, ask_env.course_id)

\* ask_question starts with a readable cache that holds a live entry for the
\* question
StartsOnLiveEntry ==
    /\ ask_pc = "start"
    /\ Strip(ask_env.question) # <<>>
    /\ ask_env.cache_service
    /\ ~ask_env.db_error_on_get
    /\ LiveRow(AskKey, now)
    /\ IsJsonText(query_cache[AskKey].response)

\* C24: a request that starts while the cache holds a non-expired entry for
\* its (question, course_id) returns the payload of that entry, marked as
\* cached, in its first step: the pipeline is not invoked and the entry is not
\* rewritten; the entry keeps its payload, course tag, creation time and
\* expiry, and its hit_count goes up by one.
C24_CacheHitShortCircuits ==
    [][StartsOnLiveEntry =>
          /\ ask_pc' = "done"
          /\ ask_response' = Some(Reply(200, Some([cached |-> TRUE,
                                   body |-> JsonLoads(query_cache[AskKey].response)])))
          /\ ask_result' = None
          /\ puts' = puts
          /\ query_cache' = [query_cache EXCEPT ![AskKey].hit_count = @ + 1]
          /\ DOMAIN query_cache' = DOMAIN query_cache]_vars

\* a request answered from the cache: the hit is counted, nothing was computed
C24_Witness ==
    /\ ask_pc = "done"
    /\ ask_response # None
    /\ Val(ask_response).status = 200
    /\ Val(Val(ask_response).data).cached
    /\ ask_result = None
    /\ query_cache[AskKey].hit_count = 1
    /\ query_cache[AskKey].expires_at = Some(DefaultTtl)

----------------------------------------------------------------------------
(* C25: chunks are spans of the text                                        *)

IsSpanOf(chunk, text) ==
    \E a \in 1..(Len(text) + 1) : \E b \in 0..Len(text) : SubSeq(text, a, b) = chunk

\* C25: every chunk _recursive_split returns is a contiguous substring of the
\* text it was given (chunks are stripped, and a stripped span is a span).
C25_ChunksAreSpans ==
    sp_pc = "done" => \A i \in 1..Len(sp_chunks) : IsSpanOf(sp_chunks[i], sp_text)

----------------------------------------------------------------------------
(* C26: the overlap seed is clamped                                         *)

\* C26: when _recursive_split starts a new buffer after an overflow, the seed
\* is the last min(chunk_overlap, len(previous buffer)) characters of the
\* previous buffer, for every chunk_overlap >= 0: empty when chunk_overlap is
\* 0, never longer than chunk_overlap, never longer than the buffer.
C26_SeedClamped ==
    sd_pc = "seeded" =>
        LET n == Min(sd_overlap, Len(sd_buffer))
        IN  /\ sd_seed = SubSeq(sd_buffer, Len(sd_buffer) - n + 1, Len(sd_buffer))
            /\ Len(sd_seed) <= sd_overlap
            /\ Len(sd_seed) <= Len(sd_buffer)
            /\ sd_next = sd_seed \o sd_piece

----------------------------------------------------------------------------
(* C27: the ordering rule of _rerank_chunks                                 *)

\* the fields of the parsed ranking that are indices of rr_chunks
InRangeFields ==
    SelectSeq(rr_llm.fields, LAMBDA f : 0 <= Val(f) /\ Val(f) < Len(rr_chunks))

\* the chunks the ranking names, in the order it names them
NamedChunks == [i \in 1..Len(InRangeFields) |-> rr_chunks[Val(InRangeFields[i]) + 1]]

\* the chunks the ranking does not name, in their original order
UnnamedChunks == SelectSeq(rr_chunks, LAMBDA c : ~InSeq(c, NamedChunks))

\* C27: with at most rerank_top_k chunks the input is returned and the model
\* is not called; otherwise the model is called and, when its output parses
\* as integers, the result is the chunks at the in-range indices in the
\* model's order followed by the chunks it did not name in their original
\* order; when the call fails or the output does not parse, the result is
\* the input.
C27_RerankOrderingRule ==
    rr_pc = "done" =>
        IF Len(rr_chunks) <= rerank_top_k
        THEN rr_out = rr_chunks /\ ~rr_called
        ELSE /\ rr_called
             /\ IF rr_llm.raised \/ ~RankingParses(rr_llm.fields)
                THEN rr_out = rr_chunks
                ELSE rr_out = NamedChunks \o UnnamedChunks

\* the model names an index out of range and then the fourth chunk: the
\* fourth chunk comes first and the five others follow in their order
C27_Witness ==
    /\ rr_pc = "done"
    /\ rr_called
    /\ Len(rr_chunks) = rerank_top_k + 1
    /\ rr_llm = LlmReturns(<<Some(Len(rr_chunks)), Some(3)>>)
    /\ rr_out[1] = rr_chunks[4]
    /\ Len(rr_out) = Len(rr_chunks)

----------------------------------------------------------------------------
(* C28: the expiry of a query-cache entry lies after its creation            *)

\* C28: in every reachable cache state every query_cache row has no
\* expires_at or an expires_at later than its created_at, whatever ttl the
\* calls of cache_response were given.
C28_ExpiryAfterCreation ==
    \A k \in DOMAIN query_cache :
        \/ query_cache[k].expires_at = None
        \/ Val(query_cache[k].expires_at) > query_cache[k].created_at

----------------------------------------------------------------------------
(* C29: eviction is not undone by requests in flight                        *)

\* C29: once clear_course_cache(c) of the deletion has completed, no
\* get_cached_response(q, c) returns a response that was computed while the
\* document was still in the course.
C29_EvictionNotUndone ==
    \A r \in Askers :
        (ev_got[r] # None /\ Val(ev_got[r]).after_eviction)
            => Val(ev_got[r]).response # AnswerFrom(TRUE)

----------------------------------------------------------------------------
(* C30: no lost update on the cached concept graph                          *)

\* C30: after the ingestion tasks of one course have all finished, the cached
\* concept graph of the course holds every concept each task extracted.
C30_NoLostConcepts ==
    (\A r \in Ingests : mg_pc[r] = "done") =>
        /\ get_cached_concept_graph(TheCourse) # None
        /\ \A r \in Ingests : \A i \in 1..Len(mg_env[r].concepts) :
               InSeq(mg_env[r].concepts[i], Val(get_cached_concept_graph(TheCourse)).concepts)

====
